---- MODULE Spec2Model ----
(***************************************************************************)
(* Patchew: ingestion of mailing-list messages into series.                *)
(*                                                                         *)
(* The model follows api/models.py: MessageManager.create and              *)
(* MessageManager.update_series, TopicManager.for_stripped_subject and the *)
(* Message methods they call.  The database is a set of rows; a Python     *)
(* model object is a snapshot of a row, and obj.save() writes every column *)
(* of the snapshot back to the row with the same primary key.  Each        *)
(* database query or save of a request is one step of the worker that      *)
(* serves the request, so two workers interleave exactly where two         *)
(* requests can.                                                           *)
(*                                                                         *)
(* Events are recorded as emitted.  In the specifications built from the   *)
(* steps of create() no module is loaded, so no handler runs.  The          *)
(* specifications built from whole requests (the second half of the module) *)
(* run mods/tags.py on every MessageAdded, one request after the other.     *)
(***************************************************************************)
EXTENDS Integers, Sequences, FiniteSets, Bags, TLC

\* ------------------------------------------------------------------------
\* Bounds

\* number of create() calls in a sequential run
MaxIngest == 5
\* number of create() calls in a run with two workers
MaxConcIngest == 4
\* number of requests in a run of create and add_message_from_mbox
MaxMbox == 3
\* number of requests in a run of create, delete_subthread and update_tags
MaxThread == 5
\* number of requests in a run of create and the saving of results
MaxResult == 4
\* number of requests in a run of create and the queue operations
MaxQueue == 4
\* number of create() calls in a run with reviews of duplicated patches
MaxReview == 5
\* number of requests in a run of create and delete_subthread with reviews
MaxRetract == 4
\* number of create() calls in a run with several revisions of a series
MaxObsolete == 5
\* number of searches in a run
MaxSearch == 1
\* number of searches and tests of watched queries in a run
MaxWatch == 1
\* number of requests in a run with projects that require prefix tags
MaxRecognize == 2
\* number of characters of a prefix tag whose numbering is read
MaxTagLen == 5
\* requests of the maintainer module and merges, per run
MaxMaint == 4

\* ------------------------------------------------------------------------
\* Parsed mails.  mbox.py is not part of the sources at hand: a mail is the
\* record its parser returns (spec section 4.1): in-reply-to id, subject
\* prefixes, stripped subject, version, sender address, date, is_patch,
\* is_series_head, the addresses of To and Cc, and the lines of get_body().
\* The subject is the sequence of its pieces: a piece is a bracket or a run
\* of characters that no search of this model cuts.
\* A prefix tag is the sequence of its characters.  A body line is the
\* sequence of its pieces, a colon being a piece of its own, so that
\* "Tested-by: dave" is <<"Tested-by", ":", " dave">>.

Projects == {"QEMU", "QEMU2"}

\* the dates of the mails are days; search.py counts in seconds
Day == 86400
\* the day on which the requests are made
Today == 11

\* table api_project (tests/test_import.py: both projects read one list;
\* Libvirt forbids the prefix that its subproject requires).  mailing_list is
\* the sequence of its addresses, commas and blanks, prefix_tags the
\* sequence of its characters.
Project ==
  [ QEMU  |-> [pk |-> 1, mailing_list |-> <<"qemu-devel">>, prefix_tags |-> << >>],
    QEMU2 |-> [pk |-> 2, mailing_list |-> <<"qemu-devel">>, prefix_tags |-> << >>],
    Libvirt |-> [pk |-> 3, mailing_list |-> <<"libvir-list", ",", " ", "libvirt-list">>,
                 prefix_tags |-> <<"!", "p", "y">>],
    LibvirtPython |-> [pk |-> 4,
                       mailing_list |-> <<"libvir-list", ",", " ", "libvirt-list">>,
                       prefix_tags |-> <<"p", "y">>],
    Strict |-> [pk |-> 5, mailing_list |-> <<"libvirt-list", ";">>,
                prefix_tags |-> <<"/", "P", "A", " ", "!", "/", "R", "F", " ", "v", "2">>] ]

Users == {"fam", "paolo"}

NoNum == << <<"P", "A", "T", "C", "H">> >>
Num(a, b) == << <<"P", "A", "T", "C", "H">>, <<a, "/", b>> >>
NumV(v, n, a, b) == << <<"P", "A", "T", "C", "H">>, <<v, n>>, <<a, "/", b>> >>

Mail ==
  [ c   |-> [subject |-> <<"[", "PATCH", " ", "0/2", "]", " ", "S">>,
             in_reply_to |-> "", prefixes |-> Num("0", "2"), is_patch |-> FALSE,
             is_series_head |-> TRUE, stripped_subject |-> "S", version |-> 1,
             sender |-> "alice", date |-> 1,
             recipients |-> {"qemu-devel"},
             body |-> << <<"cover">> >>],
    p1  |-> [subject |-> <<"[", "PATCH", " ", "1/2", "]", " ", "S1">>,
             in_reply_to |-> "c", prefixes |-> Num("1", "2"), is_patch |-> TRUE,
             is_series_head |-> FALSE, stripped_subject |-> "S1", version |-> 1,
             sender |-> "alice", date |-> 2,
             recipients |-> {"qemu-devel"},
             body |-> << <<"fix 1">>, <<"Signed-off-by", ":", " alice">>, <<"---">>,
                      <<"Tested-by", ":", " dave">>, <<"diff">> >>],
    p2  |-> [subject |-> <<"[", "PATCH", " ", "2/2", "]", " ", "S2">>,
             in_reply_to |-> "c", prefixes |-> Num("2", "2"), is_patch |-> TRUE,
             is_series_head |-> FALSE, stripped_subject |-> "S2", version |-> 1,
             sender |-> "alice", date |-> 2,
             recipients |-> {"qemu-devel"},
             body |-> << <<"fix 2">>, <<"---">>, <<"diff">> >>],
    p1b |-> [subject |-> <<"[", "PATCH", " ", "1/2", "]", " ", "S1">>,
             in_reply_to |-> "c", prefixes |-> Num("1", "2"), is_patch |-> TRUE,
             is_series_head |-> FALSE, stripped_subject |-> "S1", version |-> 1,
             sender |-> "alice", date |-> 3,
             recipients |-> {"qemu-devel"},
             body |-> << <<"fix 1">>, <<"---">>, <<"diff">> >>],
    r   |-> [subject |-> <<"Re", ":", " ", "[", "PATCH", " ", "1/2", "]", " ", "S1">>,
             in_reply_to |-> "p1", prefixes |-> << >>, is_patch |-> FALSE,
             is_series_head |-> FALSE, stripped_subject |-> "Re: S1", version |-> 0,
             sender |-> "bob", date |-> 3,
             recipients |-> {"qemu-devel"},
             body |-> << <<"> fix 1">>, <<"tESTed-bY", ":", " bob">>,
                      <<"Reviewed-by", ":", " bob">> >>],
    s   |-> [subject |-> <<"[", "PATCH", "]", " ", "T">>,
             in_reply_to |-> "", prefixes |-> NoNum, is_patch |-> TRUE,
             is_series_head |-> TRUE, stripped_subject |-> "T", version |-> 0,
             sender |-> "bob", date |-> 2,
             recipients |-> {"qemu-devel"},
             body |-> << <<"fix">>, <<"Acked-by", ":", " carol">>, <<"---">>, <<"diff">> >>],
    c2  |-> [subject |-> <<"[", "PATCH", " ", "v2", " ", "0/2", "]", " ", "S">>,
             in_reply_to |-> "", prefixes |-> NumV("v", "2", "0", "2"), is_patch |-> FALSE,
             is_series_head |-> TRUE, stripped_subject |-> "S", version |-> 2,
             sender |-> "alice", date |-> 4,
             recipients |-> {"qemu-devel"},
             body |-> << <<"cover v2">> >>],
    d   |-> [subject |-> <<"Re", ":", " ", "U">>,
             in_reply_to |-> "gone", prefixes |-> << >>, is_patch |-> FALSE,
             is_series_head |-> FALSE, stripped_subject |-> "Re: U", version |-> 0,
             sender |-> "bob", date |-> 1,
             recipients |-> {"qemu-devel"},
             body |-> << <<"text">> >>],
    x   |-> [subject |-> <<"Re", ":", " ", "X">>,
             in_reply_to |-> "x", prefixes |-> << >>, is_patch |-> FALSE,
             is_series_head |-> FALSE, stripped_subject |-> "Re: X", version |-> 0,
             sender |-> "bob", date |-> 1,
             recipients |-> {"qemu-devel"},
             body |-> << <<"text">> >>],
    a   |-> [subject |-> <<"[", "PATCH", " ", "1/2", "]", " ", "A">>,
             in_reply_to |-> "b", prefixes |-> Num("1", "2"), is_patch |-> TRUE,
             is_series_head |-> FALSE, stripped_subject |-> "A", version |-> 0,
             sender |-> "alice", date |-> 1,
             recipients |-> {"qemu-devel"},
             body |-> << <<"fix">>, <<"---">>, <<"diff">> >>],
    b   |-> [subject |-> <<"Re", ":", " ", "[", "PATCH", " ", "1/2", "]", " ", "A">>,
             in_reply_to |-> "a", prefixes |-> << >>, is_patch |-> FALSE,
             is_series_head |-> FALSE, stripped_subject |-> "Re: A", version |-> 0,
             sender |-> "bob", date |-> 2,
             recipients |-> {"qemu-devel"},
             body |-> << <<"text">> >>],
    rc  |-> [subject |-> <<"Re", ":", " ", "[", "PATCH", " ", "0/2", "]", " ", "S">>,
             in_reply_to |-> "c", prefixes |-> << >>, is_patch |-> FALSE,
             is_series_head |-> FALSE, stripped_subject |-> "Re: S", version |-> 0,
             sender |-> "carol", date |-> 3,
             recipients |-> {"qemu-devel"},
             body |-> << <<"> cover">>, <<"Acked-by", ":", " carol">> >>],
    rr  |-> [subject |-> <<"Re", ":", " ", "[", "PATCH", " ", "0/2", "]", " ", "S">>,
             in_reply_to |-> "rc", prefixes |-> << >>, is_patch |-> FALSE,
             is_series_head |-> FALSE, stripped_subject |-> "Re: S", version |-> 0,
             sender |-> "alice", date |-> 4,
             recipients |-> {"qemu-devel"},
             body |-> << <<"> Acked-by", ":", " carol">>, <<"Acked-by", ":", " carol">>,
                      <<"Tested-by", ":", " erin">> >>],
    c3  |-> [subject |-> <<"[", "PATCH", " ", "v3", " ", "0/2", "]", " ", "S">>,
             in_reply_to |-> "", prefixes |-> NumV("v", "3", "0", "2"), is_patch |-> FALSE,
             is_series_head |-> TRUE, stripped_subject |-> "S", version |-> 3,
             sender |-> "alice", date |-> 5,
             recipients |-> {"qemu-devel"},
             body |-> << <<"cover v3">> >>],
    c2e |-> [subject |-> <<"[", "PATCH", " ", "v2", " ", "0/2", "]", " ", "S">>,
             in_reply_to |-> "", prefixes |-> NumV("v", "2", "0", "2"), is_patch |-> FALSE,
             is_series_head |-> TRUE, stripped_subject |-> "S", version |-> 2,
             sender |-> "alice", date |-> 0,
             recipients |-> {"qemu-devel"},
             body |-> << <<"cover v2">> >>],
    rb  |-> [subject |-> <<"Re", ":", " ", "[", "PATCH", " ", "1/2", "]", " ", "S1">>,
             in_reply_to |-> "p1b", prefixes |-> << >>, is_patch |-> FALSE,
             is_series_head |-> FALSE, stripped_subject |-> "Re: S1", version |-> 0,
             sender |-> "dave", date |-> 4,
             recipients |-> {"qemu-devel"},
             body |-> << <<"> fix 1">>, <<"Reviewed-by", ":", " dave">> >>],
    r2  |-> [subject |-> <<"Re", ":", " ", "[", "PATCH", " ", "2/2", "]", " ", "S2">>,
             in_reply_to |-> "p2", prefixes |-> << >>, is_patch |-> FALSE,
             is_series_head |-> FALSE, stripped_subject |-> "Re: S2", version |-> 0,
             sender |-> "bob", date |-> 4,
             recipients |-> {"qemu-devel"},
             body |-> << <<"> fix 2">>, <<"Reviewed-by", ":", " bob">> >>],
    rcr |-> [subject |-> <<"Re", ":", " ", "[", "PATCH", " ", "0/2", "]", " ", "S">>,
             in_reply_to |-> "c", prefixes |-> << >>, is_patch |-> FALSE,
             is_series_head |-> FALSE, stripped_subject |-> "Re: S", version |-> 0,
             sender |-> "erin", date |-> 3,
             recipients |-> {"qemu-devel"},
             body |-> << <<"> cover">>, <<"Reviewed-by", ":", " erin">> >>],
    pl  |-> [subject |-> <<"[", "PULL", " ", "0/2", "]", " ", "block", " ", "regression", " ", "fixes">>,
             in_reply_to |-> "", prefixes |-> << <<"P", "U", "L", "L">>, <<"0", "/", "2">> >>,
             is_patch |-> FALSE,
             is_series_head |-> TRUE, stripped_subject |-> "block regression fixes", version |-> 1,
             sender |-> "paolo", date |-> 10,
             recipients |-> {"qemu-devel"},
             body |-> << <<"pull request">> >>],
    py |-> [subject |-> <<"[", "PY", " ", "PATCH", "]", " ", "PY">>,
             in_reply_to |-> "", prefixes |-> << <<"P", "Y">>, <<"P", "A", "T", "C", "H">> >>,
             is_patch |-> TRUE,
             is_series_head |-> TRUE, stripped_subject |-> "PY", version |-> 1,
             sender |-> "carol", date |-> 3,
             recipients |-> {"libvir-list"},
             body |-> << <<"fix">>, <<"---">>, <<"diff">> >>],
    pyq |-> [subject |-> <<"[", "py", " ", "PATCH", "]", " ", "PYQ">>,
             in_reply_to |-> "", prefixes |-> << <<"p", "y">>, <<"P", "A", "T", "C", "H">> >>,
             is_patch |-> TRUE,
             is_series_head |-> TRUE, stripped_subject |-> "PYQ", version |-> 1,
             sender |-> "carol", date |-> 3,
             recipients |-> {"qemu-devel"},
             body |-> << <<"fix">>, <<"---">>, <<"diff">> >>],
    pyx |-> [subject |-> <<"[", "pyx", " ", "PATCH", "]", " ", "PYX">>,
             in_reply_to |-> "", prefixes |-> << <<"p", "y", "x">>, <<"P", "A", "T", "C", "H">> >>,
             is_patch |-> TRUE,
             is_series_head |-> TRUE, stripped_subject |-> "PYX", version |-> 1,
             sender |-> "carol", date |-> 3,
             recipients |-> {"libvirt-list", "qemu-devel"},
             body |-> << <<"fix">>, <<"---">>, <<"diff">> >>],
    lv |-> [subject |-> <<"[", "PATCH", " ", "v2", "]", " ", "LV">>,
             in_reply_to |-> "", prefixes |-> << <<"P", "A", "T", "C", "H">>, <<"v", "2">> >>,
             is_patch |-> TRUE,
             is_series_head |-> TRUE, stripped_subject |-> "LV", version |-> 2,
             sender |-> "carol", date |-> 3,
             recipients |-> {"libvirt-list"},
             body |-> << <<"fix">>, <<"---">>, <<"diff">> >>],
    rfc |-> [subject |-> <<"[", "RFC", " ", "PATCH", " ", "V2", "]", " ", "RFC">>,
             in_reply_to |-> "", prefixes |-> << <<"R", "F", "C">>, <<"P", "A", "T", "C", "H">>, <<"V", "2">> >>,
             is_patch |-> TRUE,
             is_series_head |-> TRUE, stripped_subject |-> "RFC", version |-> 1,
             sender |-> "carol", date |-> 3,
             recipients |-> {"libvirt-list"},
             body |-> << <<"fix">>, <<"---">>, <<"diff">> >>],
    np |-> [subject |-> <<"NP">>,
             in_reply_to |-> "", prefixes |-> << >>,
             is_patch |-> TRUE,
             is_series_head |-> TRUE, stripped_subject |-> "NP", version |-> 1,
             sender |-> "carol", date |-> 3,
             recipients |-> {"libvir-list"},
             body |-> << <<"fix">>, <<"---">>, <<"diff">> >>],
    pa |-> [subject |-> <<"[", "patch", " ", "v2", "]", " ", "PA">>,
             in_reply_to |-> "", prefixes |-> << <<"p", "a", "t", "c", "h">>, <<"v", "2">> >>,
             is_patch |-> TRUE,
             is_series_head |-> TRUE, stripped_subject |-> "PA", version |-> 2,
             sender |-> "carol", date |-> 3,
             recipients |-> {"libvirt-list"},
             body |-> << <<"fix">>, <<"---">>, <<"diff">> >>],
    z   |-> [subject |-> <<"[", "PATCH", "]", " ", "Z">>,
             in_reply_to |-> "z", prefixes |-> NoNum, is_patch |-> TRUE,
             is_series_head |-> TRUE, stripped_subject |-> "Z", version |-> 0,
             sender |-> "bob", date |-> 2,
             recipients |-> {"qemu-devel"},
             body |-> << <<"fix">>, <<"---">>, <<"diff">> >>] ]

\* The requests a run may make: (project, message id) pairs.
SeqPool == ({"QEMU"} \X {"c", "p1", "p2", "p1b", "r", "s", "c2"})
           \cup ({"QEMU2"} \X {"c", "p1"})
ConcPool == ({"QEMU"} \X {"c", "p1", "p2", "r"}) \cup {<<"QEMU2", "c">>}
LoopPool == {"QEMU"} \X {"c", "p1", "x", "a", "b", "d"}
MboxPool == Projects \X {"c", "p1"}
ThreadPool == ({"QEMU"} \X {"c", "p1", "r", "rc", "rr", "z"}) \cup {<<"QEMU2", "c">>}
ResultPool == {<<"QEMU", "c">>, <<"QEMU", "p1">>}
QueuePool == {<<"QEMU", "c">>, <<"QEMU", "s">>}
ReviewPool == {"QEMU"} \X {"c", "p1", "p1b", "p2", "r", "rb", "r2", "rcr"}
ObsoletePool == ({"QEMU"} \X {"c", "c2", "c3", "c2e", "p1"})
                \cup ({"QEMU2"} \X {"c", "c2"})
RetractPool == {"QEMU"} \X {"c", "p1", "p2", "r", "rcr"}
RecognizePool ==
  {"QEMU", "QEMU2", "Libvirt", "LibvirtPython", "Strict"}
  \X {"c", "py", "pyq", "pyx", "lv", "rfc", "np", "pa"}

Procs == {1, 2}

\* ------------------------------------------------------------------------
\* State

VARIABLES
  rows,       \* table api_message: the stored rows
  nextPk,     \* next primary key of api_message
  nextTopic,  \* next primary key of api_topic (topics 1..nextTopic-1 exist)
  emitted,    \* bag of the events emitted so far, <<name, pk of the message>>
  calls,      \* number of create() calls made
  pool,       \* the requests this run may make
  config,     \* the option "tags" of the module tags, as the set of its items
  now,        \* datetime.datetime.now() of this run, in seconds
  pc,         \* per worker: position in create() / update_series()
  arg,        \* per worker: <<project, message id>> being ingested
  topic,      \* per worker: msg.topic before msg is saved
  msg,        \* per worker: pk of the message saved by this call
  s,          \* per worker: the object s of get_series_head and update_series
  ret,        \* per worker: what the last finished call returned
  results,    \* table api_result: the stored rows
  nextResult, \* next primary key of api_result
  queued,     \* table api_queuedseries: the stored rows
  nextQueued, \* next primary key of api_queuedseries
  last        \* the last whole request served: what was called, how it ended

vars == <<rows, nextPk, nextTopic, emitted, calls, pool, config, now, pc, arg,
          topic, msg, s, ret, results, nextResult, queued, nextQueued, last>>

\* the state that create() and update_series() leave alone
site_vars == <<results, nextResult, queued, nextQueued, last>>

NoArg == <<"", "">>
NoRow == [pk |-> 0]
\* Message.properties = {}
NoProperties == << >>
\* prev: what the request before returned, kept when both are update_tags of
\* one message
NoLast == [prev |-> "", op |-> "", arg |-> << >>, raised |-> "", ret |-> 0]

\* ------------------------------------------------------------------------
\* Columns that create() copies from the mail and that nothing changes later

in_reply_to(r) == Mail[r.message_id].in_reply_to
is_patch(r) == Mail[r.message_id].is_patch
prefixes(r) == Mail[r.message_id].prefixes
date(r) == Mail[r.message_id].date
stripped_subject(r) == Mail[r.message_id].stripped_subject
\* a sender address that equals no other
get_sender_addr_unknown(r) == "unknown"
get_sender_addr(r) == Mail[r.message_id].sender
is_series_head(r) == r.topic # 0

\* search.py, the term "has:replies": Q(last_comment_date__isnull=False)
has_replies(r) == r.last_comment_date # 0

\* QuerySet.first(): the row with the smallest primary key, or None
first(q) ==
  IF q = {} THEN NoRow ELSE CHOOSE r \in q : \A o \in q : r.pk <= o.pk

Row(db, pk) == first({r \in db : r.pk = pk})

\* Model.save() of a loaded object: UPDATE ... WHERE pk = obj.pk
save(db, obj) == {r \in db : r.pk # obj.pk} \cup {obj}


\* ------------------------------------------------------------------------
\* Message.get_num: the numbering "cur/total" of the first prefix tag that
\* contains a slash and whose two first fields are integers; (1, 1) otherwise.

Digits == {"0", "1", "2", "3", "4", "5", "6", "7", "8", "9"}

DigitVal(ch) ==
  CASE ch = "0" -> 0 [] ch = "1" -> 1 [] ch = "2" -> 2 [] ch = "3" -> 3
    [] ch = "4" -> 4 [] ch = "5" -> 5 [] ch = "6" -> 6 [] ch = "7" -> 7
    [] ch = "8" -> 8 [] ch = "9" -> 9

\* index of the first "/" of a tag, 0 when there is none
SlashAt(tag) ==
  IF \E i \in 1..Len(tag) : tag[i] = "/"
  THEN CHOOSE i \in 1..Len(tag) : tag[i] = "/" /\ \A j \in 1..(i - 1) : tag[j] # "/"
  ELSE 0

\* int(x) of a string of decimal digits; -1 stands for the ValueError
RECURSIVE int(_)
int(x) ==
  IF x = << >> \/ \E i \in 1..Len(x) : x[i] \notin Digits THEN -1
  ELSE IF Len(x) = 1 THEN DigitVal(x[1])
  ELSE 10 * int(SubSeq(x, 1, Len(x) - 1)) + DigitVal(x[Len(x)])

\* n, m = tag.split("/", maxsplit=1): what follows the total stays with it
split_once(tag) ==
  << SubSeq(tag, 1, SlashAt(tag) - 1), SubSeq(tag, SlashAt(tag) + 1, Len(tag)) >>

\* n, m, _ = (tag + "/").split("/", maxsplit=2)
split(tag) ==
  LET t == Append(tag, "/")
      i == SlashAt(t)
      rest == SubSeq(t, i + 1, Len(t))
      j == SlashAt(rest)
  IN << SubSeq(t, 1, i - 1), SubSeq(rest, 1, j - 1) >>

RECURSIVE get_num_from(_)
get_num_from(tags) ==
  IF tags = << >> THEN <<1, 1>>
  ELSE LET tag == Head(tags)
           nm == split(tag)
       IN IF SlashAt(tag) # 0 /\ int(nm[1]) >= 0 /\ int(nm[2]) >= 0
          THEN << int(nm[1]), int(nm[2]) >>
          ELSE get_num_from(Tail(tags))

get_num(r) == get_num_from(prefixes(r))

\* Message.get_num() of a message m given by its columns prefixes, is_patch
\* and topic: "assert self.is_patch or self.is_series_head" comes first
get_num_asserted(m) ==
  IF m.is_patch \/ m.topic # 0
  THEN [raised |-> "", ret |-> get_num_from(m.prefixes)]
  ELSE [raised |-> "AssertionError", ret |-> << >>]

\* ------------------------------------------------------------------------
\* Queries of Message

\* the parent looked up by message id alone, in whatever project
get_in_reply_to_message_any_project(db, r) ==
  IF in_reply_to(r) = "" THEN NoRow
  ELSE first({o \in db : o.message_id = in_reply_to(r)})

\* Message.get_in_reply_to_message
get_in_reply_to_message(db, r) ==
  IF in_reply_to(r) = "" THEN NoRow
  ELSE first({o \in db : o.project = r.project /\ o.message_id = in_reply_to(r)})

\* a query that only sees the patches stored after the message they reply to
reply_patches_later(db, r) ==
  {o \in db : is_patch(o) /\ o.project = r.project /\ in_reply_to(o) = r.message_id
               /\ o.pk > r.pk}

\* Message.objects.patches().filter(project=..., in_reply_to=...)
reply_patches(db, r) ==
  {o \in db : is_patch(o) /\ o.project = r.project /\ in_reply_to(o) = r.message_id}

\* Message.get_patches
get_patches(db, r) ==
  LET num == get_num(r)
  IN IF num[1] = num[2] /\ is_patch(r) THEN {r} ELSE reply_patches(db, r)

\* a refresh that also derives is_complete from the count of patches
refresh_num_patches_recount(db, r) ==
  LET n == Cardinality({o \in db : is_patch(o) /\ o.project = r.project
                                     /\ in_reply_to(o) = r.message_id})
  IN [r EXCEPT !.num_patches = n, !.is_complete = (n = get_num(r)[2])]

\* Message.refresh_num_patches: the object after the assignment (it is then saved)
refresh_num_patches(db, r) ==
  LET num == get_num(r)
  IN [r EXCEPT !.num_patches =
        IF num[1] = num[2] /\ is_patch(r) THEN 1
        ELSE Cardinality(reply_patches(db, r))]

\* find built from range(1, total): the last index is never asked for
find_short(db, r) ==
  {i \in 1..(get_num(r)[2] - 1) : \A q \in get_patches(db, r) : get_num(q)[1] # i}

\* the set "find" of update_series once its loop over get_patches is done
find(db, r) ==
  {i \in 1..get_num(r)[2] : \A q \in get_patches(db, r) : get_num(q)[1] # i}

\* a query that never matches a stored head
latest_heads_none(db, subject) == {}

\* TopicManager.for_stripped_subject: the topics the query can return.  Rows
\* are ordered by date only, so among the latest heads of the subject the
\* database is free to return any.
latest_heads(db, subject) ==
  LET q == {r \in db : stripped_subject(r) = subject /\ r.topic # 0}
  IN {r \in q : \A o \in q : date(o) <= date(r)}

\* a table without the unique constraint
unique_together_off(db, project, message_id) == TRUE

\* Message.Meta.unique_together = ("project", "message_id")
unique_together(db, project, message_id) ==
  \A r \in db : ~(r.project = project /\ r.message_id = message_id)


\* ------------------------------------------------------------------------
\* Steps of MessageManager.create(project, mbox)

db_vars == <<rows, nextPk, nextTopic, emitted>>

emit_event(name, pk) == emitted' = emitted (+) SetToBag({<<name, pk>>})

\* create returns (or raises): the worker is idle again
Return(p, value) ==
  /\ pc' = [pc EXCEPT ![p] = "idle"]
  /\ ret' = [ret EXCEPT ![p] = value]
  /\ arg' = [arg EXCEPT ![p] = NoArg]
  /\ topic' = [topic EXCEPT ![p] = 0]
  /\ msg' = [msg EXCEPT ![p] = 0]
  /\ s' = [s EXCEPT ![p] = NoRow]

Goto(p, label) ==
  /\ pc' = [pc EXCEPT ![p] = label]
  /\ UNCHANGED <<arg, ret>>

\* a request arrives: create(project, mbox=...) is called
Begin(p, max) ==
  /\ pc[p] = "idle"
  /\ calls < max
  /\ \E item \in pool : arg' = [arg EXCEPT ![p] = item]
  /\ calls' = calls + 1
  /\ pc' = [pc EXCEPT ![p] = "create"]
  /\ ret' = [ret EXCEPT ![p] = 0]
  /\ UNCHANGED <<db_vars, pool, config, now, topic, msg, s, site_vars>>

\* create without its lookup of the stored message
stored_never(db, item) == NoRow

\* Message.objects.filter(message_id=..., project=project).first()
stored(db, item) ==
  first({r \in db : r.message_id = item[2] /\ r.project = item[1]})

\* create, up to "if msg is not None: return msg"
create(p) ==
  /\ pc[p] = "create"
  /\ LET found == stored(rows, arg[p])
     IN IF found # NoRow
        THEN Return(p, found.pk)
        ELSE /\ Goto(p, IF Mail[arg[p][2]].is_series_head THEN "topic" ELSE "save")
             /\ UNCHANGED <<topic, msg, s>>
  /\ UNCHANGED <<db_vars, calls, pool, config, now, site_vars>>

\* msg.topic = Topic.objects.for_stripped_subject(msg.stripped_subject)
for_stripped_subject(p) ==
  /\ pc[p] = "topic"
  /\ LET q == latest_heads(rows, Mail[arg[p][2]].stripped_subject)
     IN IF q # {}
        THEN /\ \E r \in q : topic' = [topic EXCEPT ![p] = r.topic]
             /\ UNCHANGED nextTopic
        ELSE /\ topic' = [topic EXCEPT ![p] = nextTopic]
             /\ nextTopic' = nextTopic + 1
  /\ Goto(p, "save")
  /\ UNCHANGED <<rows, nextPk, emitted, calls, pool, config, now, msg, s, site_vars>>

\* the Message object that create and add_message_from_mbox build and save:
\* the columns with a default keep it
NewMessage(pk, project, message_id, t) ==
  [pk |-> pk, project |-> project, message_id |-> message_id, topic |-> t,
   is_complete |-> FALSE, is_merged |-> FALSE, is_obsolete |-> FALSE,
   is_tested |-> FALSE, is_reviewed |-> FALSE,
   last_reply_date |-> 0, last_comment_date |-> 0,
   num_patches |-> -1, properties |-> NoProperties]

\* msg.save(); emit_event("MessageAdded"); update_series begins with s = msg.
\* The INSERT fails with IntegrityError when the row exists by now.
save_msg(p) ==
  /\ pc[p] = "save"
  /\ IF unique_together(rows, arg[p][1], arg[p][2])
     THEN LET new == NewMessage(nextPk, arg[p][1], arg[p][2], topic[p])
          IN /\ rows' = rows \cup {new}
             /\ nextPk' = nextPk + 1
             /\ emit_event("MessageAdded", new.pk)
             /\ msg' = [msg EXCEPT ![p] = new.pk]
             /\ s' = [s EXCEPT ![p] = new]
             /\ Goto(p, "head")
             /\ UNCHANGED topic
     ELSE /\ Return(p, -1)
          /\ UNCHANGED <<rows, nextPk, emitted>>
  /\ UNCHANGED <<nextTopic, calls, pool, config, now, site_vars>>

\* Message.get_series_head: the tests "while s:" and "if s.is_series_head:".
\* Without a head update_series returns, and create returns msg.
get_series_head(p) ==
  /\ pc[p] = "head"
  /\ IF s[p] = NoRow
     THEN Return(p, msg[p])
     ELSE /\ Goto(p, IF is_series_head(s[p]) THEN "reply" ELSE "parent")
          /\ UNCHANGED <<topic, msg, s>>
  /\ UNCHANGED <<db_vars, calls, pool, config, now, site_vars>>

\* Message.get_series_head: s = s.get_in_reply_to_message()
get_parent(p) ==
  /\ pc[p] = "parent"
  /\ s' = [s EXCEPT ![p] = get_in_reply_to_message(rows, s[p])]
  /\ Goto(p, "head")
  /\ UNCHANGED <<db_vars, calls, pool, config, now, topic, msg, site_vars>>

\* update_series: last_reply_date
update_reply_date(p) ==
  /\ pc[p] = "reply"
  /\ LET d == Mail[arg[p][2]].date
     IN IF s[p].last_reply_date = 0 \/ s[p].last_reply_date < d
        THEN LET o == [s[p] EXCEPT !.last_reply_date = d]
             IN s' = [s EXCEPT ![p] = o] /\ rows' = save(rows, o)
        ELSE UNCHANGED <<s, rows>>
  /\ Goto(p, "comment")
  /\ UNCHANGED <<nextPk, nextTopic, emitted, calls, pool, config, now, topic, msg, site_vars>>

\* update_series: last_comment_date
update_comment_date(p) ==
  /\ pc[p] = "comment"
  /\ LET d == Mail[arg[p][2]].date
     IN IF get_sender_addr(s[p]) # Mail[arg[p][2]].sender
           /\ (s[p].last_comment_date = 0 \/ s[p].last_comment_date < d)
        THEN LET o == [s[p] EXCEPT !.last_comment_date = d]
             IN s' = [s EXCEPT ![p] = o] /\ rows' = save(rows, o)
        ELSE UNCHANGED <<s, rows>>
  /\ Goto(p, "refresh")
  /\ UNCHANGED <<nextPk, nextTopic, emitted, calls, pool, config, now, topic, msg, site_vars>>

\* update_series: s.refresh_num_patches()
update_num_patches(p) ==
  /\ pc[p] = "refresh"
  /\ LET o == refresh_num_patches(rows, s[p])
     IN s' = [s EXCEPT ![p] = o] /\ rows' = save(rows, o)
  /\ Goto(p, "complete")
  /\ UNCHANGED <<nextPk, nextTopic, emitted, calls, pool, config, now, topic, msg, site_vars>>

\* the condition under which update_series calls s.set_complete()
all_found(db, r) ==
  \/ get_num(r)[1] = get_num(r)[2] /\ is_patch(r)
  \/ find(db, r) = {}

\* set_complete without its test of is_complete
set_complete_always(o) == TRUE

\* Message.set_complete returns at once on an object that is complete
set_complete_acts(o) == ~o.is_complete

\* update_series from get_num on, with Message.set_complete
update_complete(p) ==
  /\ pc[p] = "complete"
  /\ IF all_found(rows, s[p]) /\ set_complete_acts(s[p])
     THEN /\ rows' = save(rows, [s[p] EXCEPT !.is_complete = TRUE])
          /\ emit_event("SeriesComplete", s[p].pk)
     ELSE UNCHANGED <<rows, emitted>>
  /\ Return(p, msg[p])
  /\ UNCHANGED <<nextPk, nextTopic, calls, pool, config, now, site_vars>>

Run(p) ==
  \/ create(p)
  \/ for_stripped_subject(p)
  \/ save_msg(p)
  \/ get_series_head(p)
  \/ get_parent(p)
  \/ update_reply_date(p)
  \/ update_comment_date(p)
  \/ update_num_patches(p)
  \/ update_complete(p)

\* ------------------------------------------------------------------------
\* Whole requests.  With one worker a request runs from its first statement
\* to its last before the next one starts.  The operators below compute the
\* database after a request from the database before it; a database is the
\* record of the message table, the two counters, the events emitted so far
\* and the exception that ended the request ("" when none did).  An object
\* that a request holds is read again from the table where the code uses
\* it: with one worker nothing else writes the row in between.

Db ==
  [rows |-> rows, nextPk |-> nextPk, nextTopic |-> nextTopic,
   emitted |-> emitted, raised |-> ""]

Emit(w, name, pk) == [w EXCEPT !.emitted = @ (+) SetToBag({<<name, pk>>})]

Raise(w, exc) == [w EXCEPT !.raised = exc]

version(r) == Mail[r.message_id].version
body(r) == Mail[r.message_id].body
\* Message.patch_num = m.get_num()[0]
patch_num(r) == get_num(r)[1]

\* Message.get_property
get_property(r, prop, default) ==
  IF prop \in DOMAIN r.properties THEN r.properties[prop] ELSE default

\* Message.set_property(prop, value), value not None
set_property(w, r, prop, value) ==
  LET o == [r EXCEPT !.properties = (prop :> value) @@ r.properties]
  IN Emit([w EXCEPT !.rows = save(@, o)], "SetProperty", r.pk)

\* the walk of get_series_head from m: the head, NoRow when the chain ends
\* without one, Hang when the walk never ends.  A walk of more steps than
\* there are rows has come to a row twice and repeats from there.
Hang == [pk |-> -1]

RECURSIVE walk_to_head(_, _, _)
walk_to_head(db, m, steps) ==
  IF m = NoRow THEN NoRow
  ELSE IF is_series_head(m) THEN m
  ELSE IF steps > Cardinality(db) THEN Hang
  ELSE walk_to_head(db, get_in_reply_to_message(db, m), steps + 1)

\* Message.get_replies, as a set
get_replies(db, r) ==
  {o \in db : o.project = r.project /\ in_reply_to(o) = r.message_id}

\* .order_by("patch_num"): rows of one patch_num in the order of their keys
RECURSIVE order_by_patch_num(_)
order_by_patch_num(q) ==
  IF q = {} THEN << >>
  ELSE LET m == CHOOSE m \in q : \A o \in q :
                  \/ patch_num(m) < patch_num(o)
                  \/ patch_num(m) = patch_num(o) /\ m.pk <= o.pk
       IN <<m>> \o order_by_patch_num(q \ {m})

\* ------------------------------------------------------------------------
\* mods/tags.py

\* str.lower() of the pieces that occur in the mails
Lower(piece) ==
  CASE piece \in {"Tested-by", "tESTed-bY"} -> "tested-by"
    [] piece \in {"Reviewed-by", "Reviewed-By"} -> "reviewed-by"
    [] piece = "Acked-by" -> "acked-by"
    [] piece = "Reported-by" -> "reported-by"
    [] piece = "Suggested-by" -> "suggested-by"
    [] piece = "Based-on" -> "based-on"
    [] piece = "Signed-off-by" -> "signed-off-by"
    [] piece = "PULL" -> "pull"
    [] piece = "PATCH" -> "patch"
    [] piece = "Regression" -> "regression"
    [] OTHER -> piece

\* _default_config: tags = Tested-by, Reported-by, Acked-by, Suggested-by
default_config == {<<"Tested-by">>, <<"Reported-by">>, <<"Acked-by">>, <<"Suggested-by">>}

\* the configuration of the class documentation:
\* tags = Reviewed-by, Tested-by, Reported-by, Acked-by, Suggested-by
documented_config == {<<"Reviewed-by">>} \cup default_config

\* get_tag_prefixes: tagsconfig = self.get_config("default", "tags", default="")
tagsconfig == config

REV_BY_PREFIX == <<"Reviewed-by", ":">>
BASED_ON_PREFIX == <<"Based-on", ":">>
BUILT_IN_TAGS == {REV_BY_PREFIX, BASED_ON_PREFIX}

get_tag_prefixes == tagsconfig \cup BUILT_IN_TAGS

\* l.lower().startswith(t.lower())
startswith_lower(l, t) ==
  /\ Len(l) >= Len(t)
  /\ \A i \in 1..Len(t) : Lower(l[i]) = Lower(t[i])

\* get_tag_regex().match(l): '^(?i:tag|tag|...):'
get_tag_regex(l) ==
  \E t \in get_tag_prefixes : startswith_lower(l, Append(t, ":"))

\* the lines of a body above its first "---" line
before_diff(ls) ==
  IF \E i \in 1..Len(ls) : ls[i] = <<"---">>
  THEN SubSeq(ls, 1, (CHOOSE i \in 1..Len(ls) :
                        ls[i] = <<"---">> /\ \A j \in 1..(i - 1) : ls[j] # <<"---">>) - 1)
  ELSE ls

\* the list r of parse_message_tags, as a bag
RECURSIVE matching_lines(_)
matching_lines(ls) ==
  IF ls = << >> THEN EmptyBag
  ELSE (IF get_tag_regex(Head(ls)) THEN SetToBag({Head(ls)}) ELSE EmptyBag)
       (+) matching_lines(Tail(ls))

\* a scan that stops at the diff
parse_message_tags_before_diff(r) == matching_lines(before_diff(body(r)))

\* SeriesTagsModule.parse_message_tags
parse_message_tags(r) == matching_lines(body(r))

\* a collection that follows the patch replies too
non_patch_replies_all(db, m) == get_replies(db, m)

\* the replies that look_for_tags descends into
non_patch_replies(db, m) == {x \in get_replies(db, m) : ~is_patch(x)}

\* SeriesTagsModule.look_for_tags: the list r as a bag, or raised when the
\* recursion does not end (a chain of replies deeper than there are rows
\* repeats a row: Python gives up with RecursionError)
RECURSIVE look_for_tags(_, _, _), tags_of_replies(_, _, _)
look_for_tags(db, m, depth) ==
  IF depth > Cardinality(db) THEN [raised |-> TRUE, tags |-> EmptyBag]
  ELSE LET sub == tags_of_replies(db, non_patch_replies(db, m), depth + 1)
       IN [raised |-> sub.raised, tags |-> parse_message_tags(m) (+) sub.tags]

tags_of_replies(db, xs, depth) ==
  IF xs = {} THEN [raised |-> FALSE, tags |-> EmptyBag]
  ELSE LET x == first(xs)
           head == look_for_tags(db, x, depth)
           rest == tags_of_replies(db, xs \ {x}, depth)
       IN [raised |-> head.raised \/ rest.raised, tags |-> head.tags (+) rest.tags]

\* a comparison of the two lists by their lengths
tags_differ_by_length(old, new) == Cardinality(old) # BagCardinality(new)

\* set(old) != set(new); the stored list(set(new)) is kept as the set
tags_differ(old, new) == old # BagToSet(new)

\* SeriesTagsModule.update_tags(s): the database after it, and what it returned
update_tags(w, pk) ==
  LET obj == Row(w.rows, pk)
      old == get_property(obj, "tags", {})
      new == look_for_tags(w.rows, obj, 0)
  IN IF new.raised THEN [w |-> Raise(w, "RecursionError"), updated |-> FALSE]
     ELSE IF tags_differ(old, new.tags)
          THEN [w |-> set_property(w, obj, "tags", BagToSet(new.tags)), updated |-> TRUE]
          ELSE [w |-> w, updated |-> FALSE]

\* newer_than without the comparison of the dates
newer_than_by_version(m1, m2) == version(m1) > version(m2)

\* on_message_added, newer_than
newer_than(m1, m2) == version(m1) > version(m2) /\ date(m1) >= date(m2)

\* Message.get_alternative_revisions
get_alternative_revisions(db, r) ==
  {o \in db : o.project = r.project /\ o.topic = r.topic}

\* on_message_added: the loop over the alternative revisions ms, taken in
\* the order of their keys
RECURSIVE mark_obsoleted(_, _, _)
mark_obsoleted(w, pk, ms) ==
  IF ms = {} THEN w
  ELSE LET m == first(ms)
           series == Row(w.rows, pk)
           w1 == IF newer_than(m, series)
                 THEN set_property(w, series, "obsoleted-by", m.message_id)
                 ELSE IF newer_than(series, m)
                      THEN set_property(w, m, "obsoleted-by", series.message_id)
                      ELSE w
       IN mark_obsoleted(w1, pk, ms \ {m})

\* on_message_added: "updated = updated or self.update_tags(p)" over the
\* patches ps; update_tags is not called once updated is true
RECURSIVE update_tags_of_patches(_, _)
update_tags_of_patches(st, ps) ==
  IF ps = << >> \/ st.w.raised # "" \/ st.updated THEN st
  ELSE update_tags_of_patches(update_tags(st.w, Head(ps).pk), Tail(ps))

\* _find_reviewers; parse_address is not among the sources: a reviewer is
\* what follows the prefix on the tag line
find_reviewers(r) ==
  {SubSeq(x, Len(REV_BY_PREFIX) + 1, Len(x)) :
     x \in {x \in get_property(r, "tags", {}) : startswith_lower(x, REV_BY_PREFIX)}}

\* on_message_added from "reviewers = set()" to the two set_property calls
set_reviewed(w, pk) ==
  LET series == Row(w.rows, pk)
      ps == get_patches(w.rows, series)
      num_reviewed == Cardinality({q \in ps : find_reviewers(q) # {}})
      series_reviewers == find_reviewers(series)
      reviewers == UNION {find_reviewers(q) : q \in ps} \cup series_reviewers
  IN IF num_reviewed = get_num(series)[2] \/ series_reviewers # {}
     THEN LET w1 == set_property(w, series, "reviewed", TRUE)
          IN set_property(w1, Row(w1.rows, pk), "reviewers", reviewers)
     ELSE w

\* on_message_added from "reviewers = set()" to the end; st is the database
\* and the value of updated after the loop over the patches
review_and_notify(st, pk) ==
  IF st.w.raised # "" THEN st.w
  ELSE IF st.updated THEN Emit(set_reviewed(st.w, pk), "TagsUpdate", pk)
  ELSE set_reviewed(st.w, pk)

\* on_message_added: "for p in series.get_patches()"; st is the database and
\* the value of updated after update_tags(series)
update_tags_of_series_patches(st, pk) ==
  update_tags_of_patches(
    st, order_by_patch_num(get_patches(st.w.rows, Row(st.w.rows, pk))))

\* on_message_added for the series head found
on_series_message_added(w, series) ==
  review_and_notify(
    update_tags_of_series_patches(
      update_tags(
        mark_obsoleted(w, series.pk, get_alternative_revisions(w.rows, series)),
        series.pk),
      series.pk),
    series.pk)

\* SeriesTagsModule.on_message_added(message)
on_message_added(w, pk) ==
  LET series == walk_to_head(w.rows, Row(w.rows, pk), 0)
  IN IF series = Hang THEN Raise(w, "hang")
     ELSE IF series = NoRow THEN w
     ELSE on_series_message_added(w, series)

\* ------------------------------------------------------------------------
\* api/models.py, one request at a time

\* MessageManager.update_series(msg)
update_series(w, pk) ==
  LET m == Row(w.rows, pk)
      h == walk_to_head(w.rows, m, 0)
  IN IF h = Hang THEN Raise(w, "hang")
     ELSE IF h = NoRow THEN w
     ELSE LET s1 == IF h.last_reply_date = 0 \/ h.last_reply_date < date(m)
                    THEN [h EXCEPT !.last_reply_date = date(m)] ELSE h
              s2 == IF get_sender_addr(s1) # get_sender_addr(m)
                       /\ (s1.last_comment_date = 0 \/ s1.last_comment_date < date(m))
                    THEN [s1 EXCEPT !.last_comment_date = date(m)] ELSE s1
              s3 == refresh_num_patches(w.rows, s2)
              db3 == save(w.rows, s3)
          IN IF all_found(db3, s3) /\ set_complete_acts(s3)
             THEN Emit([w EXCEPT !.rows = save(db3, [s3 EXCEPT !.is_complete = TRUE])],
                       "SeriesComplete", h.pk)
             ELSE [w EXCEPT !.rows = db3]

\* Topic.objects.for_stripped_subject: the database after it and the Topic.
\* With one worker the latest heads of a subject all have one Topic.
topic_for(w, subject) ==
  LET q == latest_heads(w.rows, subject)
  IN IF q # {} THEN [w |-> w, topic |-> first(q).topic]
     ELSE [w |-> [w EXCEPT !.nextTopic = @ + 1], topic |-> w.nextTopic]

\* create: self.update_series(msg), reached when no handler of MessageAdded
\* raised
update_series_of_added(w, pk) ==
  IF w.raised # "" THEN w ELSE update_series(w, pk)

\* msg.save(); emit_event("MessageAdded", message=msg); self.update_series(msg)
add_message(w, project, id, t) ==
  IF ~unique_together(w.rows, project, id) THEN Raise(w, "IntegrityError")
  ELSE update_series_of_added(
         on_message_added(
           Emit([w EXCEPT !.rows = @ \cup {NewMessage(w.nextPk, project, id, t)},
                          !.nextPk = @ + 1],
                "MessageAdded", w.nextPk),
           w.nextPk),
         w.nextPk)

\* MessageManager.create(project, mbox): the database after it
create_message(w, project, id) ==
  IF stored(w.rows, <<project, id>>) # NoRow THEN w
  ELSE LET t == IF Mail[id].is_series_head
                THEN topic_for(w, Mail[id].stripped_subject)
                ELSE [w |-> w, topic |-> 0]
       IN add_message(t.w, project, id, t.topic)

\* str.lower() of the characters of the prefix tags that occur in the mails
LowerCh(ch) ==
  CASE ch = "P" -> "p" [] ch = "A" -> "a" [] ch = "T" -> "t" [] ch = "C" -> "c"
    [] ch = "H" -> "h" [] ch = "R" -> "r" [] ch = "F" -> "f"
    [] ch = "D" -> "d" [] ch = "W" -> "w" [] ch = "M" -> "m" [] ch = "Y" -> "y"
    [] ch = "V" -> "v"
    [] OTHER -> ch

lower(str) == [i \in 1..Len(str) |-> LowerCh(str[i])]

\* str.split(): the words between the blanks of a string
RECURSIVE split_from(_, _, _)
split_from(query, word, words) ==
  IF query = << >> THEN IF word = << >> THEN words ELSE Append(words, word)
  ELSE IF Head(query) = " "
       THEN split_from(Tail(query), << >>,
                       IF word = << >> THEN words ELSE Append(words, word))
       ELSE split_from(Tail(query), Append(word, Head(query)), words)

\* x.rstrip(",;")
RECURSIVE rstrip(_)
rstrip(x) ==
  IF x # << >> /\ x[Len(x)] \in {",", ";"} THEN rstrip(SubSeq(x, 1, Len(x) - 1)) ELSE x

\* Project.get_mailing_lists(): an address is one piece
get_mailing_lists(project) ==
  {rstrip(x) : x \in {split_from(Project[project].mailing_list, << >>, << >>)[i] :
                        i \in 1..Len(split_from(Project[project].mailing_list, << >>, << >>))}}

\* self.prefix_tags.split()
prefix_tags(project) == split_from(Project[project].prefix_tags, << >>, << >>)

\* re.match(t, p) for a pattern t of plain characters: p begins with t
re_match(t, p) == Len(p) >= Len(t) /\ SubSeq(p, 1, Len(t)) = t

\* a test of a prefix tag that tells capitals from small letters
tag_found_exact(t, ps) ==
  \E i \in 1..Len(ps) :
    IF t # << >> /\ Head(t) = "/" THEN re_match(Tail(t), ps[i])
    ELSE t = ps[i]

\* Project.recognizes: the test of one prefix tag t against the prefixes
tag_found(t, ps) ==
  \E i \in 1..Len(ps) :
    IF t # << >> /\ Head(t) = "/" THEN re_match(Tail(t), ps[i])
    ELSE lower(t) = lower(ps[i])

\* Project.recognizes(m)
recognizes(project, id) ==
  /\ \E addr \in Mail[id].recipients : <<addr>> \in get_mailing_lists(project)
  /\ \A i \in 1..Len(prefix_tags(project)) :
       LET t == prefix_tags(project)[i]
           inversed == t # << >> /\ Head(t) = "!"
       IN IF inversed THEN ~tag_found(Tail(t), Mail[id].prefixes)
          ELSE tag_found(t, Mail[id].prefixes)

\* a test that never finds the message
duplicate_never(db, project, id) == FALSE

\* add_message_from_mbox: self.filter(message_id=msgid, project__name=p.name).first()
duplicate(db, project, id) ==
  \E r \in db : r.message_id = id /\ r.project = project

\* add_message_from_mbox: the loop over the projects ps
RECURSIVE add_to_projects(_, _, _)
add_to_projects(w, id, ps) ==
  IF ps = << >> \/ w.raised # "" THEN w
  ELSE LET t == IF Mail[id].is_series_head
                THEN topic_for(w, Mail[id].stripped_subject)
                ELSE [w |-> w, topic |-> 0]
       IN IF duplicate(t.w.rows, Head(ps), id)
          THEN Raise(t.w, "DuplicateMessageError")
          ELSE add_to_projects(add_message(t.w, Head(ps), id, t.topic), id, Tail(ps))

\* the orders in which Project.objects.all() may list the projects
ProjectOrders ==
  {<<"QEMU", "QEMU2", "Libvirt", "LibvirtPython", "Strict">>,
   <<"Strict", "LibvirtPython", "Libvirt", "QEMU2", "QEMU">>}

\* find_message_projects(m), in the order given
RECURSIVE find_message_projects(_, _)
find_message_projects(id, order) ==
  IF order = << >> THEN << >>
  ELSE (IF recognizes(Head(order), id) THEN <<Head(order)>> ELSE << >>)
       \o find_message_projects(id, Tail(order))

\* MessageManager.add_message_from_mbox(mbox, user, project_name): with a
\* project_name the call ends at "Project.object", an attribute that the
\* class Project does not have
add_message_from_mbox(w, id, project_name, order) ==
  IF project_name # "" THEN Raise(w, "AttributeError")
  ELSE add_to_projects(w, id, find_message_projects(id, order))

\* delete_subthread: msg.delete(), reached when the loop over the replies
\* came to its end
delete_message(w, m) ==
  IF w.raised # "" THEN w ELSE [w EXCEPT !.rows = {r \in @ : r.pk # m.pk}]

\* MessageManager.delete_subthread(msg) at recursion depth "depth"; limit is
\* the number of rows when the outermost call began
RECURSIVE delete_subthread(_, _, _, _), delete_replies(_, _, _, _)
delete_subthread(w, m, depth, limit) ==
  IF depth > limit THEN Raise(w, "RecursionError")
  ELSE delete_message(
         delete_replies(w, order_by_patch_num(get_replies(w.rows, m)), depth + 1, limit),
         m)

delete_replies(w, rs, depth, limit) ==
  IF rs = << >> \/ w.raised # "" THEN w
  ELSE delete_replies(delete_subthread(w, Head(rs), depth, limit), Tail(rs), depth, limit)

\* ------------------------------------------------------------------------
\* api/search.py: the Q objects of a query.  A Q is a node with a connector,
\* a negation mark and children; a child is a Q or a lookup on a column.
\* The database a search reads is the record of its tables and of the time.

SearchDb == [rows |-> rows, results |-> results, queued |-> queued, now |-> now]

Message_subject(r) == Mail[r.message_id].subject
\* Message.date in seconds
Message_date(r) == Mail[r.message_id].date * Day
\* Message.maintainers, which no code at hand fills
Message_maintainers(r) == << >>

\* a lookup column=value
Lookup_(column, value) == [lookup |-> column, value |-> value]

\* Q(): no children
Q0 == [connector |-> "AND", negated |-> FALSE, children |-> << >>]
\* Q(column=value)
Q1(column, value) == [Q0 EXCEPT !.children = <<Lookup_(column, value)>>]
\* Q(column=value, column2=value2)
Q2(column, value, column2, value2) ==
  [Q0 EXCEPT !.children = <<Lookup_(column, value), Lookup_(column2, value2)>>]

\* bool(q) of a Q: it has children
Q_bool(q) == q.children # << >>

\* Q._combine
Q_combine(x, y, conn) ==
  IF ~Q_bool(y) THEN x
  ELSE IF ~Q_bool(x) THEN y
  ELSE [connector |-> conn, negated |-> FALSE, children |-> <<x, y>>]

\* x & y and x | y
Q_and(x, y) == Q_combine(x, y, "AND")
Q_or(x, y) == Q_combine(x, y, "OR")

\* an inversion that gives back its operand
Q_invert_off(q) == q

\* ~q: a negated node around q; of a Q without children, the Q with the
\* other negation mark
Q_invert(q) ==
  IF Q_bool(q) THEN [connector |-> "AND", negated |-> TRUE, children |-> <<q>>]
  ELSE [q EXCEPT !.negated = ~@]

\* self._make_filter_subquery(model, q): Q(id__in=model.objects.filter(q).values("message_id"))
_make_filter_subquery(model, q) == Q1("id__in", [model |-> model, q |-> q])

\* s.lower() of a sequence of pieces
lower_pieces(str) == [i \in 1..Len(str) |-> Lower(str[i])]

\* x.startswith(y)
startswith(x, y) == Len(x) >= Len(y) /\ SubSeq(x, 1, Len(y)) = y

\* y in x, for strings
contains(x, y) ==
  \E i \in 0..(Len(x) - Len(y)) : SubSeq(x, i + 1, i + Len(y)) = y

icontains(x, y) == contains(lower_pieces(x), lower_pieces(y))

\* the rows of a model that a subquery reads
table(db, model) ==
  IF model = "MessageResult" THEN {x \in db.results : x.message # 0} ELSE db.queued

\* the WHERE clause of filter(q), for the row obj: a node under which no
\* column is tested is left out of the clause, negated or not
RECURSIVE constrains(_), holds(_, _, _), holds_lookup(_, _, _)
constrains(q) ==
  IF "lookup" \in DOMAIN q THEN TRUE
  ELSE \E i \in 1..Len(q.children) : constrains(q.children[i])

holds(q, obj, db) ==
  IF "lookup" \in DOMAIN q THEN holds_lookup(q, obj, db)
  ELSE IF ~constrains(q) THEN TRUE
  ELSE (q.negated # (IF q.connector = "AND"
                     THEN \A i \in 1..Len(q.children) : holds(q.children[i], obj, db)
                     ELSE \E i \in 1..Len(q.children) :
                            constrains(q.children[i]) /\ holds(q.children[i], obj, db)))

holds_lookup(l, obj, db) ==
  CASE l.lookup = "is_complete" -> obj.is_complete = l.value
    [] l.lookup = "is_reviewed" -> obj.is_reviewed = l.value
    [] l.lookup = "is_obsolete" -> obj.is_obsolete = l.value
    [] l.lookup = "is_tested" -> obj.is_tested = l.value
    [] l.lookup = "is_merged" -> obj.is_merged = l.value
    [] l.lookup = "subject__contains" -> contains(Message_subject(obj), l.value)
    [] l.lookup = "subject__icontains" -> icontains(Message_subject(obj), l.value)
    [] l.lookup = "date__gte" -> Message_date(obj) >= l.value
    [] l.lookup = "date__lte" -> Message_date(obj) <= l.value
    [] l.lookup = "sender__icontains" -> icontains(<<get_sender_addr(obj)>>, l.value)
    [] l.lookup = "recipients__icontains" ->
         \E a \in Mail[obj.message_id].recipients : icontains(<<a>>, l.value)
    [] l.lookup = "message_id" -> <<obj.message_id>> = l.value
    [] l.lookup = "last_comment_date__isnull" -> (obj.last_comment_date = 0) = l.value
    [] l.lookup = "properties__name" -> <<get_property(obj, "name", "")>> = l.value
    [] l.lookup = "project__name" -> <<obj.project>> = l.value
    [] l.lookup = "maintainers__icontains" -> icontains(Message_maintainers(obj), l.value)
    [] l.lookup = "pk" -> FALSE
    [] l.lookup = "id__in" ->
         \E x \in table(db, l.value.model) : x.message = obj.pk /\ holds(l.value.q, x, db)
    [] l.lookup = "name" -> obj.name = l.value
    [] l.lookup = "name__startswith" -> startswith(obj.name, l.value)
    [] l.lookup = "name__in" -> obj.name \in l.value
    [] l.lookup = "status" -> obj.status = l.value
    [] l.lookup = "status__ne" -> obj.status # l.value
    [] l.lookup = "user" -> obj.user = l.value
    [] l.lookup = "user__username" -> <<obj.user>> = l.value

\* ------------------------------------------------------------------------
\* api/search.py: SearchEngine.  A term is the sequence of its pieces: a
\* piece is one character, or a word that the code reads as a whole.  What a
\* method returns is kept with the state of the engine after it: the list
\* _last_keywords, the set _projects and the exception raised.

\* Python's None where a Q is expected
None == [none |-> TRUE]

\* search_series: self._last_keywords = []; self._projects = set()
NewEngine == [keywords |-> << >>, projects |-> {}, raised |-> ""]

Returns(q, se) == [q |-> q, se |-> se]
Raises(exc, se) == [q |-> None, se |-> [se EXCEPT !.raised = exc]]

\* x or y of two returned values: y is not evaluated when x is true
Truthy(q) == "none" \notin DOMAIN q /\ Q_bool(q)

\* term[term.find(":") + 1:]
after_colon(term) ==
  SubSeq(term,
         (CHOOSE i \in 1..Len(term) : term[i] = ":" /\ \A j \in 1..(i - 1) : term[j] # ":") + 1,
         Len(term))

\* a filter for the results whose name begins with term
_make_filter_result_prefix(term, column, value) ==
  _make_filter_subquery(
    "MessageResult",
    Q_or(Q2("name", term, column, value),
         Q2("name__startswith", term, column, value)))

\* SearchEngine._make_filter_result(term, **kwargs)
_make_filter_result(term, column, value) ==
  _make_filter_subquery(
    "MessageResult",
    Q_or(Q2("name", term, column, value),
         Q2("name__startswith", Append(term, "."), column, value)))

\* _make_filter_result(term) without kwargs
_make_filter_result_any(term) ==
  _make_filter_subquery(
    "MessageResult",
    Q_or(Q1("name", term), Q1("name__startswith", Append(term, "."))))

\* _make_filter_age.human_to_seconds
human_to_seconds(n, unit) ==
  CASE unit = "d" -> n * 86400
    [] unit = "w" -> n * 86400 * 7
    [] unit = "m" -> n * 86400 * 30
    [] unit = "y" -> n * 86400 * 365

\* _make_filter_age: cond after the leading "<" or ">" is taken off
age_cond(cond) ==
  IF cond # << >> /\ Head(cond) \in {"<", ">"} THEN Tail(cond) ELSE cond

\* an age filter that compares the other way round
age_filter_reversed(less, sec, t) ==
  IF less THEN Q1("date__lte", t - sec) ELSE Q1("date__gte", t - sec)

\* _make_filter_age from "sec = human_to_seconds(int(num), unit)" on
age_filter(less, sec, t) ==
  IF less THEN Q1("date__gte", t - sec) ELSE Q1("date__lte", t - sec)

\* SearchEngine._make_filter_age(cond); cond[-1] of an empty string is an
\* IndexError
_make_filter_age(cond, se, t) ==
  IF age_cond(cond) = << >> THEN Raises("IndexError", se)
  ELSE IF \/ int(SubSeq(age_cond(cond), 1, Len(age_cond(cond)) - 1)) < 0
          \/ LowerCh(age_cond(cond)[Len(age_cond(cond))]) \notin {"d", "w", "m", "y"}
       THEN Raises("InvalidSearchTerm", se)
       ELSE Returns(age_filter(cond # << >> /\ Head(cond) = "<",
                               human_to_seconds(
                                 int(SubSeq(age_cond(cond), 1, Len(age_cond(cond)) - 1)),
                                 LowerCh(age_cond(cond)[Len(age_cond(cond))])),
                               t),
                    se)

\* SearchEngine._add_to_keywords(t)
_add_to_keywords(t, se) == Returns(Q0, [se EXCEPT !.keywords = Append(@, t)])

\* SearchEngine._make_filter_is(cond)
_make_filter_is(cond, se) ==
  CASE cond = <<"complete">> -> Returns(Q1("is_complete", TRUE), se)
    [] cond = <<"pull">> ->
         Returns(Q_or(Q1("subject__contains", <<"[", "PULL">>),
                      Q1("subject__contains", <<"[", "GIT", " ", "PULL">>)),
                 _add_to_keywords(<<"PULL">>, se).se)
    [] cond = <<"reviewed">> -> Returns(Q1("is_reviewed", TRUE), se)
    [] cond \in {<<"obsoleted">>, <<"old">>, <<"obsolete">>} ->
         Returns(Q1("is_obsolete", TRUE), se)
    [] cond = <<"applied">> ->
         Returns(_make_filter_subquery("MessageResult",
                                       Q2("name", <<"g", "i", "t">>, "status", "success")), se)
    [] cond = <<"tested">> -> Returns(Q1("is_tested", TRUE), se)
    [] cond = <<"merged">> -> Returns(Q1("is_merged", TRUE), se)
    [] OTHER -> Returns(None, se)

\* the callers of a search: nobody (user=None), the anonymous user of a
\* request without a login, and the registered users
NoUser == "None"
AnonymousUser == "AnonymousUser"
Callers == {NoUser, AnonymousUser} \cup Users

\* User.email; the anonymous user has no such attribute
email(user) == <<user, "@", "example.com">>

\* SearchEngine._make_filter_queue(username, user, **kwargs); None has no
\* attribute is_authenticated
_make_filter_queue(username, user, column, value, se) ==
  IF username = <<"me">>
  THEN IF user = NoUser THEN Raises("AttributeError", se)
       ELSE IF user = AnonymousUser THEN Returns(Q1("pk", None), se)
       ELSE Returns(_make_filter_subquery("QueuedSeries", Q2("user", user, column, value)), se)
  ELSE Returns(_make_filter_subquery("QueuedSeries",
                                     Q2("user__username", username, column, value)), se)

\* x or self._add_to_keywords(term), x being what _make_filter_is returned
or_add_to_keywords(x, term) ==
  IF Truthy(x.q) THEN x ELSE _add_to_keywords(term, x.se)

\* ~x or self._add_to_keywords(term): None cannot be inverted
invert_or_add_to_keywords(x, term) ==
  IF "none" \in DOMAIN x.q THEN Raises("TypeError", x.se)
  ELSE or_add_to_keywords(Returns(Q_invert(x.q), x.se), term)

\* SearchEngine._make_filter(term, user); t is the time of the call
_make_filter(term, user, se, t) ==
  CASE startswith(term, <<"age", ":">>) -> _make_filter_age(after_colon(term), se, t)
    [] OTHER ->
  IF term = << >> THEN Raises("IndexError", se)
  ELSE CASE Head(term) \in {"<", ">"} /\ Len(term) > 1 -> _make_filter_age(term, se, t)
    [] startswith(term, <<"from", ":">>) ->
         Returns(Q1("sender__icontains", after_colon(term)), se)
    [] startswith(term, <<"to", ":">>) ->
         Returns(Q1("recipients__icontains", after_colon(term)), se)
    [] startswith(term, <<"subject", ":">>) -> _add_to_keywords(after_colon(term), se)
    [] startswith(term, <<"id", ":">>) \/ startswith(term, <<"rfc822msgid", ":">>) ->
         IF after_colon(term) = << >> THEN Raises("IndexError", se)
         ELSE IF Head(after_colon(term)) = "<"
                 /\ after_colon(term)[Len(after_colon(term))] = ">"
              THEN Returns(Q1("message_id",
                              SubSeq(after_colon(term), 2, Len(after_colon(term)) - 1)), se)
              ELSE Returns(Q1("message_id", after_colon(term)), se)
    [] startswith(term, <<"is", ":">>) ->
         or_add_to_keywords(_make_filter_is(after_colon(term), se), term)
    [] startswith(term, <<"not", ":">>) ->
         invert_or_add_to_keywords(_make_filter_is(after_colon(term), se), term)
    [] startswith(term, <<"has", ":">>) ->
         IF after_colon(term) = <<"replies">>
         THEN Returns(Q1("last_comment_date__isnull", FALSE), se)
         ELSE Returns(Q1("properties__name", after_colon(term)), se)
    [] startswith(term, <<"failure", ":">>) ->
         Returns(_make_filter_result(after_colon(term), "status", "failure"), se)
    [] startswith(term, <<"success", ":">>) ->
         Returns(Q_and(_make_filter_result_any(after_colon(term)),
                       Q_invert(_make_filter_result(after_colon(term),
                                                    "status__ne", "success"))), se)
    [] startswith(term, <<"pending", ":">>) ->
         Returns(_make_filter_result(after_colon(term), "status", "pending"), se)
    [] startswith(term, <<"running", ":">>) ->
         Returns(_make_filter_result(after_colon(term), "status", "running"), se)
    [] \E w \in {"ack", "accept", "accepted"} : startswith(term, <<w, ":">>) ->
         _make_filter_queue(after_colon(term), user, "name", "accept", se)
    [] \E w \in {"nack", "reject", "rejected"} : startswith(term, <<w, ":">>) ->
         _make_filter_queue(after_colon(term), user, "name", "reject", se)
    [] \E w \in {"review", "reviewed"} : startswith(term, <<w, ":">>) ->
         _make_filter_queue(after_colon(term), user, "name__in", {"accept", "reject"}, se)
    [] \E w \in {"watch", "watched"} : startswith(term, <<w, ":">>) ->
         _make_filter_queue(after_colon(term), user, "name", "watched", se)
    [] startswith(term, <<"project", ":">>) ->
         Returns(Q1("project__name", after_colon(term)),
                 [se EXCEPT !.projects = @ \cup {after_colon(term)}])
    [] startswith(term, <<"maintained-by", ":">>) \/ startswith(term, <<"maint", ":">>) ->
         IF after_colon(term) = <<"me">> /\ user # NoUser
         THEN IF user = AnonymousUser THEN Raises("AttributeError", se)
              ELSE Returns(Q1("maintainers__icontains", email(user)), se)
         ELSE Returns(Q1("maintainers__icontains", after_colon(term)), se)
    [] OTHER -> _add_to_keywords(term, se)

\* _process_term: "if neg: return ~q else: return q"
negated_if(neg, x) ==
  IF x.se.raised # "" \/ ~neg THEN x ELSE Returns(Q_invert(x.q), x.se)

\* SearchEngine._process_term(term, user)
_process_term(term, user, se, t) ==
  IF Head(term) \in {"+", "-", "!"}
  THEN negated_if(Head(term) # "+",
                  IF Head(term) # "!" /\ \A i \in 1..Len(Tail(term)) : Tail(term)[i] # ":"
                  THEN or_add_to_keywords(_make_filter_is(Tail(term), se), Tail(term))
                  ELSE _make_filter(Tail(term), user, se, t))
  ELSE _make_filter(term, user, se, t)

\* the next step of reduce(lambda x, y: x & y, map(_process_term, terms), Q())
and_term(acc, x) ==
  IF x.se.raised # "" THEN x ELSE Returns(Q_and(acc.q, x.q), x.se)

\* search_series: q = reduce(...) over the terms, ended by an exception
RECURSIVE process_terms(_, _, _, _)
process_terms(terms, user, acc, t) ==
  IF terms = << >> \/ acc.se.raised # "" THEN acc
  ELSE process_terms(Tail(terms), user,
                     and_term(acc, _process_term(Head(terms), user, acc.se, t)), t)

\* search_series: q = reduce(lambda x, y: x & Q(subject__icontains=y), keywords, q),
\* the branch of a database other than PostgreSQL; on PostgreSQL the same
\* keywords are searched in the subject by full-text search
RECURSIVE and_keywords(_, _)
and_keywords(q, keywords) ==
  IF keywords = << >> THEN q
  ELSE and_keywords(Q_and(q, Q1("subject__icontains", Head(keywords))), Tail(keywords))

\* Message.objects.series_heads()
series_heads(db) == {r \in db : r.topic # 0}

\* queryset.filter(q) for the q and the engine that the terms gave
filtered(x, queryset, db) ==
  [raised |-> x.se.raised,
   keywords |-> x.se.keywords,
   ret |-> IF x.se.raised # "" THEN {}
           ELSE {m.pk : m \in {m \in queryset :
                                 holds(and_keywords(x.q, x.se.keywords), m, db)}}]

\* SearchEngine.search_series(*terms, user=user, queryset=queryset)
search_series(terms, user, queryset, db) ==
  filtered(process_terms(terms, user, Returns(Q0, NewEngine), db.now), queryset, db)

\* ------------------------------------------------------------------------
\* Requests as single steps

\* the worker is free; a request that hangs keeps it for ever
Idle == last.raised # "hang" /\ \A p \in Procs : pc[p] = "idle"

\* the tables of messages and topics and the events after the request
Commit(w) ==
  /\ rows' = w.rows
  /\ nextPk' = w.nextPk
  /\ nextTopic' = w.nextTopic
  /\ emitted' = w.emitted
  /\ calls' = calls + 1
  /\ UNCHANGED <<pool, config, now, pc, arg, topic, msg, s, ret>>

\* Message.objects.create(project, mbox=...)
CreateRequest(max) ==
  /\ Idle
  /\ calls < max
  /\ \E item \in pool :
       \E w \in {create_message(Db, item[1], item[2])} :
          /\ Commit(w)
          /\ last' = [prev |-> "", op |-> "create", arg |-> item, raised |-> w.raised,
                      ret |-> IF w.raised = "" THEN stored(w.rows, item).pk ELSE 0]
  /\ UNCHANGED <<results, nextResult, queued, nextQueued>>

\* Message.objects.add_message_from_mbox(mbox, user, project_name)
AddFromMbox(max) ==
  /\ Idle
  /\ calls < max
  /\ \E id \in {item[2] : item \in pool}, project_name \in {"", "QEMU"},
        order \in ProjectOrders :
       \E w \in {add_message_from_mbox(Db, id, project_name, order)} :
          /\ Commit(w)
          /\ last' = [prev |-> "", op |-> "add_message_from_mbox", arg |-> <<project_name, id>>,
                      raised |-> w.raised,
                      ret |-> IF w.raised = "" THEN find_message_projects(id, order)
                              ELSE << >>]
  /\ UNCHANGED <<results, nextResult, queued, nextQueued>>

\* Message.objects.delete_subthread(msg) for a stored msg; the rows of
\* api_result and api_queuedseries go with their message (on_delete=CASCADE)
DeleteSubthread(max) ==
  /\ Idle
  /\ calls < max
  /\ \E m \in rows :
       \E w \in {delete_subthread(Db, m, 0, Cardinality(rows))} :
          /\ Commit(w)
          /\ results' = {x \in results : x.message = 0 \/ x.message \in {r.pk : r \in w.rows}}
          /\ queued' = {x \in queued : x.message \in {r.pk : r \in w.rows}}
          /\ last' = [prev |-> "", op |-> "delete_subthread", arg |-> <<m.project, m.message_id>>,
                      raised |-> w.raised, ret |-> m.pk]
  /\ UNCHANGED <<nextResult, nextQueued>>

\* SeriesTagsModule.update_tags(s) for a stored s
UpdateTags(max) ==
  /\ Idle
  /\ calls < max
  /\ \E m \in rows :
       \E st \in {update_tags(Db, m.pk)} :
          /\ Commit(st.w)
          /\ last' = [prev |-> IF last.op = "update_tags"
                                   /\ last.arg = <<m.project, m.message_id>>
                                THEN (IF last.ret THEN "True" ELSE "None")
                                ELSE "",
                      op |-> "update_tags", arg |-> <<m.project, m.message_id>>,
                      raised |-> st.w.raised, ret |-> st.updated]
  /\ UNCHANGED <<results, nextResult, queued, nextQueued>>

QueueNames == {"accept", "reject"}

\* a lookup that never finds the membership
get_queued_never(q, user, m, name) == {}

\* QueuedSeries.objects.filter(user=user, message=m, name=queue)
get_queued(q, user, m, name) ==
  {x \in q : x.user = user /\ x.message = m /\ x.name = name}

\* [x.strip() for x in query.split() if x.strip()]
query_terms(query) == split_from(query, << >>, << >>)

\* Message.objects.filter(id=message.id)
filter_id(db, pk) == {r \in db : r.pk = pk}

\* SearchEngine.query_test_message(query, message): .first() is the message
\* or None, here the set of what is returned
query_test_message(query, message, db) ==
  search_series(query_terms(query), NoUser, filter_id(db.rows, message.pk), db)

\* ------------------------------------------------------------------------
\* mods/maintainer.py and Project.series_update, one request at a time

\* api_watchedquery: the watched queries of the site, in the order of their keys
WatchedQuery == <<[user |-> "fam", query |-> <<"not", ":", "merged">>]>>

\* the tables a request of the maintainer module works on
Site ==
  [rows |-> rows, queued |-> queued, nextQueued |-> nextQueued,
   emitted |-> emitted, raised |-> ""]

\* MaintainerModule._add_to_queue(user, m, queue); m is the key of the message
_add_to_queue(w, user, m, queue) ==
  IF get_queued(w.queued, user, m, queue) # {} THEN w
  ELSE [w EXCEPT !.queued = @ \cup {[pk |-> w.nextQueued, user |-> user,
                                      message |-> m, name |-> queue]},
                 !.nextQueued = @ + 1,
                 !.emitted = @ (+) SetToBag({<<"MessageQueued", w.nextQueued>>})]

\* MaintainerModule._drop_all_from_queue(query): one MessageDropping for every
\* row of the query, then query.delete()
_drop_all_from_queue(w, query) ==
  [w EXCEPT !.queued = @ \ query,
            !.emitted = @ (+) SetToBag({<<"MessageDropping", x.pk>> : x \in query})]

\* MaintainerModule._drop_from_queue(user, m, queue)
_drop_from_queue(w, user, m, queue) ==
  _drop_all_from_queue(w, get_queued(w.queued, user, m, queue))

\* _update_watch_queue: the body of the loop for one watched query, out is
\* what query_test_message gave
watch_or_drop(w, out, user, series) ==
  IF out.raised # "" THEN Raise(w, out.raised)
  ELSE IF out.ret # {} THEN _add_to_queue(w, user, series.pk, "watched")
  ELSE _drop_from_queue(w, user, series.pk, "watched")

\* MaintainerModule._update_watch_queue(series) over the watched queries wqs;
\* res is api_result and t the time
RECURSIVE _update_watch_queue(_, _, _, _, _)
_update_watch_queue(w, res, t, series, wqs) ==
  IF wqs = << >> \/ w.raised # "" THEN w
  ELSE _update_watch_queue(
         watch_or_drop(w,
                       query_test_message(Head(wqs).query, series,
                                          [rows |-> w.rows, results |-> res,
                                           queued |-> w.queued, now |-> t]),
                       Head(wqs).user, series),
         res, t, series, Tail(wqs))

\* Message.git_result is set up by mods/git.py: the result "git" of the message
git_result(res, pk) ==
  first({x \in res : x.message = pk /\ x.name = <<"g", "i", "t">>})

\* MaintainerModule.on_result_update(evt, obj, old_status, result) for the
\* saved result r; a ProjectResult has message 0
on_result_update(w, res, t, r) ==
  IF r.message = 0 THEN w
  ELSE IF r.pk = git_result(res, r.message).pk /\ r.status # "pending"
       THEN _update_watch_queue(w, res, t, Row(w.rows, r.message), WatchedQuery)
       ELSE w

\* MaintainerModule.on_series_merged(evt, project, series): the memberships
\* of accept and reject are dropped, then the name obj is looked up, which
\* is defined nowhere
on_series_merged(w, series) ==
  Raise(_drop_all_from_queue(
          w, {x \in w.queued : x.message = series.pk /\ x.name \in {"accept", "reject"}}),
        "NameError")

\* emit_event("SeriesMerged", ...) with the handler of the maintainer module;
\* event.py is not among the sources: an exception of a handler either
\* reaches the caller of emit_event (propagates) or is dropped there
emit_series_merged(w, series, propagates) ==
  IF propagates THEN on_series_merged(Emit(w, "SeriesMerged", series.pk), series)
  ELSE Raise(on_series_merged(Emit(w, "SeriesMerged", series.pk), series), "")

\* Message.set_merged() of the loaded object obj
set_merged(w, obj, propagates) ==
  IF obj.is_merged THEN w
  ELSE emit_series_merged([w EXCEPT !.rows = save(@, [obj EXCEPT !.is_merged = TRUE])],
                          obj, propagates)

\* msgid[1:-1] of an id in angle brackets; an id is a sequence of pieces
unbracket(msgid) ==
  IF Len(msgid) >= 2 /\ Head(msgid) = "<" /\ msgid[Len(msgid)] = ">"
  THEN SubSeq(msgid, 2, Len(msgid) - 1) ELSE msgid

\* series.get_patches() of the loaded object series: the object itself for a
\* patch that is its own series, stored rows otherwise
patches_of(db, series) ==
  LET num == get_num(series)
  IN IF num[1] = num[2] /\ is_patch(series) THEN {series} ELSE reply_patches(db, series)

\* series_update: the second loop, over the loaded heads updated_series
RECURSIVE merge_series(_, _, _)
merge_series(w, updated_series, propagates) ==
  IF updated_series = << >> \/ w.raised # "" THEN w
  ELSE merge_series(
         IF \A q \in patches_of(w.rows, Head(updated_series)) : q.is_merged
         THEN set_merged(w, Head(updated_series), propagates) ELSE w,
         Tail(updated_series), propagates)

\* series_update: the body of the first loop once mo is saved; sr is
\* mo.get_series_head(), which is mo itself when mo is a head
merged_one(st, db, sr) ==
  IF sr = Hang THEN [st EXCEPT !.w = Raise([@ EXCEPT !.rows = db], "hang")]
  ELSE [w |-> [st.w EXCEPT !.rows = db],
        updated_series |-> IF sr = NoRow THEN st.updated_series
                           ELSE Append(st.updated_series, sr)]

\* series_update: the body of the first loop for the unmerged message mo
\* (NoRow: none found), st is the database and updated_series
mark_merged(st, mo) ==
  IF mo = NoRow THEN st
  ELSE merged_one(st, save(st.w.rows, [mo EXCEPT !.is_merged = TRUE]),
                  walk_to_head(save(st.w.rows, [mo EXCEPT !.is_merged = TRUE]),
                               [mo EXCEPT !.is_merged = TRUE], 0))

\* series_update: the first loop, over message_ids
RECURSIVE mark_all_merged(_, _, _)
mark_all_merged(st, project, message_ids) ==
  IF message_ids = << >> \/ st.w.raised # "" THEN st
  ELSE mark_all_merged(
         mark_merged(st, first({r \in st.w.rows :
                                  /\ r.project = project
                                  /\ <<r.message_id>> = unbracket(Head(message_ids))
                                  /\ ~r.is_merged})),
         project, Tail(message_ids))

\* series_update: the second loop on what the first one left
merge_updated(st, propagates) ==
  [w |-> merge_series(st.w, st.updated_series, propagates),
   ret |-> Len(st.updated_series)]

\* Project.series_update(message_ids): the tables after it and what it returns
series_update(w, project, message_ids, propagates) ==
  merge_updated(mark_all_merged([w |-> w, updated_series |-> << >>], project, message_ids),
                propagates)

\* the tables of the maintainer module after a request
CommitSite(w) ==
  /\ rows' = w.rows
  /\ queued' = w.queued
  /\ nextQueued' = w.nextQueued
  /\ emitted' = w.emitted

\* the frame of a request of the maintainer module
SiteRequest ==
  /\ calls' = calls + 1
  /\ UNCHANGED <<nextPk, nextTopic, pool, config, now, pc, arg, topic, msg, s, ret,
                 results, nextResult>>

\* Message.objects.find_series(message_id): the heads of every project
find_series(db, message_id) == first({r \in db : r.topic # 0 /\ r.message_id = message_id})

\* MaintainerModule._update_review_state(request, message_id, accept); the
\* module does not import HttpResponseForbidden
_update_review_state(w, user, message_id, accept) ==
  IF user = AnonymousUser THEN Raise(w, "NameError")
  ELSE IF find_series(w.rows, message_id) = NoRow THEN Raise(w, "Http404")
  ELSE _add_to_queue(
         _drop_from_queue(w, user, find_series(w.rows, message_id).pk,
                          IF accept THEN "reject" ELSE "accept"),
         user, find_series(w.rows, message_id).pk,
         IF accept THEN "accept" ELSE "reject")

\* MaintainerModule._delete_review(request, message_id): r.delete()
_delete_review(w, user, message_id) ==
  IF user = AnonymousUser THEN Raise(w, "NameError")
  ELSE IF find_series(w.rows, message_id) = NoRow THEN Raise(w, "Http404")
  ELSE [w EXCEPT !.queued =
          {x \in @ : ~(/\ x.user = user
                        /\ x.message = find_series(w.rows, message_id).pk
                        /\ x.name \in {"accept", "reject"})}]

\* the values of the parameter "queue" of an add-to-queue request; "" stands
\* for a missing one, "!todo" begins with a character outside [_a-zA-Z0-9-]
QueueParams == {"accept", "reject", "watched", "", "!todo"}

\* not queue or re.match(r"[^_a-zA-Z0-9\-]", queue)
invalid_queue(queue) == queue \in {"", "!todo"}

\* MaintainerModule.www_view_add_to_queue(request, message_id)
view_add_to_queue(w, user, message_id, queue) ==
  IF user = AnonymousUser THEN Raise(w, "PermissionDenied")
  ELSE IF find_series(w.rows, message_id) = NoRow THEN Raise(w, "Http404")
  ELSE IF invalid_queue(queue) THEN w
  ELSE _add_to_queue(w, user, find_series(w.rows, message_id).pk, queue)

\* MaintainerModule.www_view_drop_from_queue(request, queue, message_id)
view_drop_from_queue(w, user, queue, message_id) ==
  IF user = AnonymousUser THEN Raise(w, "PermissionDenied")
  ELSE IF find_series(w.rows, message_id) = NoRow THEN Raise(w, "Http404")
  ELSE _drop_from_queue(w, user, find_series(w.rows, message_id).pk, queue)

\* who sends the requests and the message ids they name
Requesters == Users \cup {AnonymousUser}
ViewIds == {"c", "p1"}

\* the request of a view is done: w are the tables it left
Responded(w, op, user, message_id, queue) ==
  /\ CommitSite(w)
  /\ last' = [prev |-> queue, op |-> op, arg |-> <<user, message_id>>,
              raised |-> w.raised, ret |-> IF w.raised = "" THEN 1 ELSE 0]
  /\ SiteRequest

\* GET mark-as-accepted/<message_id>/
www_view_mark_accepted(max) ==
  /\ Idle
  /\ calls < max
  /\ \E user \in Requesters, message_id \in ViewIds :
       Responded(_update_review_state(Site, user, message_id, TRUE),
                 "mark_accepted", user, message_id, "")

\* GET mark-as-rejected/<message_id>/
www_view_mark_rejected(max) ==
  /\ Idle
  /\ calls < max
  /\ \E user \in Requesters, message_id \in ViewIds :
       Responded(_update_review_state(Site, user, message_id, FALSE),
                 "mark_rejected", user, message_id, "")

\* GET clear-reviewed/<message_id>/
www_view_clear_reviewed(max) ==
  /\ Idle
  /\ calls < max
  /\ \E user \in Requesters, message_id \in ViewIds :
       Responded(_delete_review(Site, user, message_id),
                 "clear_reviewed", user, message_id, "")

\* GET add-to-queue/<message_id>/?queue=...
www_view_add_to_queue(max) ==
  /\ Idle
  /\ calls < max
  /\ \E user \in Requesters, message_id \in ViewIds, queue \in QueueParams :
       Responded(view_add_to_queue(Site, user, message_id, queue),
                 "add_to_queue", user, message_id, queue)

\* GET drop-from-queue/<queue>/<message_id>/
www_view_drop_from_queue(max) ==
  /\ Idle
  /\ calls < max
  /\ \E user \in Requesters, message_id \in ViewIds, queue \in QueueParams \ {""} :
       Responded(view_drop_from_queue(Site, user, queue, message_id),
                 "drop_from_queue", user, message_id, queue)

\* the ids a caller of series_update lists, each a sequence of pieces
MessageIdLists ==
  {<< <<"c">> >>, << <<"p1">> >>, << <<"p2">> >>, << <<"s">> >>, << <<"nope">> >>,
   << <<"<", "p1", ">">>, <<"p2">> >>, << <<"p2">>, <<"p1">> >>,
   << <<"p1">>, <<"p1">> >>, << <<"c">>, <<"p2">> >>, << <<"s">>, <<"p1">> >>}

\* project.series_update(message_ids) for the project QEMU
SeriesUpdate(max) ==
  /\ Idle
  /\ calls < max
  /\ \E message_ids \in MessageIdLists, propagates \in BOOLEAN :
       \E out \in {series_update(Site, "QEMU", message_ids, propagates)} :
         /\ CommitSite(out.w)
         /\ last' = [prev |-> "", op |-> "series_update", arg |-> <<"QEMU", message_ids>>,
                     raised |-> out.w.raised, ret |-> out.ret]
  /\ SiteRequest

\* the frame of a request that works on api_result or api_queuedseries
OtherTables ==
  /\ calls' = calls + 1
  /\ UNCHANGED <<rows, nextPk, nextTopic, pool, config, now, pc, arg, topic, msg, s, ret>>

\* names of results, as their characters
ResultNames == {<<"g", "i", "t">>, <<"t", "e", "s", "t">>}
Statuses == {"pending", "success"}

\* the subjects of a Result: message 0 is a ProjectResult
Subjects(db) ==
  {[message |-> 0, project |-> p] : p \in {"QEMU"}}
  \cup {[message |-> r.pk, project |-> r.project] : r \in db}

\* Result.save: emit_event("ResultUpdate", ...) for the saved result r, with
\* the handler of the maintainer module; res is api_result after the save
ResultSaved(res, r, op) ==
  /\ results' = res
  /\ \E w \in {on_result_update(Emit(Site, "ResultUpdate", r.pk), res, now, r)} :
       /\ queued' = w.queued
       /\ nextQueued' = w.nextQueued
       /\ emitted' = w.emitted
       /\ last' = [prev |-> "", op |-> op, arg |-> <<r.project, r.message, r.name>>,
                   raised |-> w.raised, ret |-> r.pk]

\* r = obj.create_result(name=..., status=...); r.save(): Result.save of an
\* object without a key is an INSERT
NewResult(max) ==
  /\ Idle
  /\ calls < max
  /\ \E obj \in Subjects(rows), name \in ResultNames, status \in Statuses :
       \E r \in {[pk |-> nextResult, message |-> obj.message, project |-> obj.project,
                   name |-> name, status |-> status]} :
         ResultSaved(results \cup {r}, r, "create_result")
  /\ nextResult' = nextResult + 1
  /\ OtherTables

\* r.status = ...; r.save() of a stored Result r: an UPDATE
SaveResult(max) ==
  /\ Idle
  /\ calls < max
  /\ \E x \in results, status \in Statuses :
       \E r \in {[x EXCEPT !.status = status]} :
         ResultSaved(save(results, r), r, "save_result")
  /\ OtherTables
  /\ UNCHANGED nextResult

\* MaintainerModule._add_to_queue(user, m, queue); "created" of get_or_create
\* is kept as 1 or 0
add_to_queue(max) ==
  /\ Idle
  /\ calls < max
  /\ \E user \in Users, m \in rows, name \in QueueNames :
       /\ IF get_queued(queued, user, m.pk, name) # {}
          THEN UNCHANGED <<queued, nextQueued, emitted>>
          ELSE /\ queued' = queued \cup {[pk |-> nextQueued, user |-> user,
                                           message |-> m.pk, name |-> name]}
               /\ nextQueued' = nextQueued + 1
               /\ emitted' = emitted (+) SetToBag({<<"MessageQueued", nextQueued>>})
       /\ last' = [prev |-> "", op |-> "add_to_queue", arg |-> <<user, m.pk, name>>,
                   raised |-> "",
                   ret |-> IF get_queued(queued, user, m.pk, name) # {} THEN 0 ELSE 1]
  /\ OtherTables
  /\ UNCHANGED <<results, nextResult>>

\* MaintainerModule._drop_from_queue(user, m, queue)
drop_from_queue(max) ==
  /\ Idle
  /\ calls < max
  /\ \E user \in Users, m \in rows, name \in QueueNames :
       LET query == get_queued(queued, user, m.pk, name)
       IN /\ queued' = queued \ query
          /\ emitted' = emitted (+) SetToBag({<<"MessageDropping", x.pk>> : x \in query})
          /\ last' = [prev |-> "", op |-> "drop_from_queue", arg |-> <<user, m.pk, name>>,
                      raised |-> "", ret |-> 0]
  /\ OtherTables
  /\ UNCHANGED <<results, nextResult, nextQueued>>

\* the tables before the first message
NoDb == [rows |-> {}, nextPk |-> 1, nextTopic |-> 1, emitted |-> EmptyBag, raised |-> ""]

\* the rows after Message.objects.create of the mails ids, in this order
RECURSIVE imported(_, _)
imported(ids, w) ==
  IF ids = << >> THEN w.rows
  ELSE imported(Tail(ids), create_message(w, "QEMU", Head(ids)))

\* the archives that are searched: a series without its second patch, the
\* whole series, the series with a reply; each with a pull request
Archives ==
  {imported(ids, NoDb) :
     ids \in {<<"c", "p1", "pl">>, <<"c", "p1", "p2", "pl">>, <<"c", "p1", "p2", "r", "pl">>}}

\* the columns is_reviewed, is_obsolete, is_tested and is_merged of the
\* series c as the migration 0049_populate_message_flags and the modules
\* left them
FlagColumns ==
  {{}, {"reviewed"}, {"obsolete"}, {"tested"}, {"merged"},
   {"reviewed", "obsolete", "tested", "merged"}}

flagged(rs, flags) ==
  {IF r.message_id = "c"
   THEN [r EXCEPT !.is_reviewed = "reviewed" \in flags,
                  !.is_obsolete = "obsolete" \in flags,
                  !.is_tested = "tested" \in flags,
                  !.is_merged = @ \/ "merged" \in flags]
   ELSE r : r \in rs}

\* the names "git", "git.sub" and "gitx" of results, as their characters
git == <<"g", "i", "t">>
git_sub == <<"g", "i", "t", ".", "s", "u", "b">>
gitx == <<"g", "i", "t", "x">>

\* api_result of the series c: (name, status) of its results
ResultTables ==
  {{},
   {<<git, "success">>},
   {<<git, "success">>, <<git_sub, "failure">>},
   {<<git, "success">>, <<git_sub, "success">>},
   {<<gitx, "success">>},
   {<<git, "failure">>, <<gitx, "success">>},
   {<<git, "success">>, <<gitx, "failure">>},
   {<<git, "pending">>},
   {<<git, "running">>, <<git_sub, "success">>},
   {<<git_sub, "success">>}}

\* the rows of api_result for a table of results of the series c
RECURSIVE result_rows(_, _, _)
result_rows(tab, rs, pk) ==
  IF tab = {} THEN {}
  ELSE LET x == CHOOSE y \in tab : TRUE
       IN {[pk |-> pk, message |-> stored(rs, <<"QEMU", "c">>).pk, project |-> "QEMU",
            name |-> x[1], status |-> x[2]]}
          \cup result_rows(tab \ {x}, rs, pk + 1)

\* datetime.datetime.now(): the series c is 10, 30 or 365 days old
Nows == {Today * Day, 31 * Day, 366 * Day}

\* the sites that are searched: every archive with every setting of the
\* flags, the whole series at every time and with every table of results
SearchSites ==
  (Archives \X FlagColumns \X {{}} \X {Today * Day})
  \cup ({imported(<<"c", "p1", "p2", "pl">>, NoDb)} \X {{}, {"reviewed"}}
        \X ResultTables \X Nows)

\* api_queuedseries: (user, message_id of the series, queue) of the rows
QueuedTables ==
  {{},
   {<<"fam", "c", "accept">>},
   {<<"fam", "c", "reject">>, <<"paolo", "pl", "watched">>},
   {<<"fam", "c", "watched">>, <<"paolo", "c", "accept">>},
   {<<"paolo", "c", "reject">>, <<"fam", "pl", "accept">>}}

\* the rows of api_queuedseries for a table of memberships
RECURSIVE queued_rows(_, _, _)
queued_rows(tab, rs, pk) ==
  IF tab = {} THEN {}
  ELSE LET x == CHOOSE y \in tab : TRUE
       IN {[pk |-> pk, user |-> x[1], message |-> stored(rs, <<"QEMU", x[2]>>).pk,
            name |-> x[3]]}
          \cup queued_rows(tab \ {x}, rs, pk + 1)

\* the sites whose queues are watched
WatchSites ==
  {imported(<<"c", "p1", "p2", "pl">>, NoDb)} \X {{}, {"reviewed"}} \X QueuedTables

\* the flags of the prefixes "is:" and "not:", and a name that is none
FlagNames ==
  {"complete", "reviewed", "obsolete", "old", "obsoleted", "applied", "tested",
   "merged", "pull"}
FlagTerms ==
  UNION {{<<"is", ":", x>>, <<"not", ":", x>>, <<"+", x>>, <<"-", x>>} :
           x \in FlagNames \cup {"bogus"}}

KeywordTerms ==
  {<<"regression">>, <<"S">>, <<"subject", ":", "regression">>}

FilterTerms ==
  {<<"from", ":", "paolo">>, <<"to", ":", "qemu-devel">>, <<"has", ":", "replies">>,
   <<"id", ":", "c">>, <<"id", ":", "<", "pl", ">">>, <<"project", ":", "QEMU">>}

AgeTerms ==
  {<<"age", ":", ">", "1", "w">>, <<"age", ":", "<", "1", "w">>, <<"age", ":", "1", "w">>,
   <<">", "1", "w">>, <<"<", "1", "w">>, <<"age", ":", ">", "1", "0", "d">>,
   <<"age", ":", "<", "1", "0", "d">>, <<"age", ":", "1", "m">>, <<"age", ":", "<", "1", "m">>,
   <<"age", ":", ">", "1", "y">>, <<"<", "1", "y">>, <<"age", ":", ">", "1", "W">>,
   <<"age", ":", "0", "d">>}

\* age terms that are no number followed by a unit
BadAgeTerms ==
  {<<"age", ":", "1", "x">>, <<"age", ":", ">", "1", "h">>, <<"age", ":", "w">>,
   <<"age", ":", "<", "d">>, <<"age", ":", "x", "d">>, <<"age", ":", "1", "0">>,
   <<"<", "1", "s">>, <<"age", ":", "-", "1", "d">>,
   <<"age", ":">>, <<"age", ":", ">">>, <<"age", ":", "<">>}

ResultTerms ==
  {<<w, ":">> \o git : w \in {"success", "failure", "pending", "running"}}

Terms ==
  FlagTerms \cup KeywordTerms \cup FilterTerms \cup AgeTerms \cup BadAgeTerms
  \cup ResultTerms

\* the queries of a run: a term, its negation, a double negation, two terms
Queries ==
  {<<t>> : t \in Terms} \cup {<<<<"!">> \o t>> : t \in Terms}
  \cup {<< <<"!", "!", "is", ":", "reviewed">> >>,
        << <<"is", ":", "complete">>, <<"age", ":", ">", "1", "w">> >>,
        << <<"regression">>, <<"!", "is", ":", "reviewed">> >>}

\* who asks what
Requests == {"fam"} \X Queries

\* the queue terms with the user "me"
QueueTerms ==
  {<<w, ":", "me">> : w \in {"accept", "ack", "accepted", "reject", "nack", "rejected",
                             "review", "reviewed", "watch", "watched"}}

\* queries as they are typed or stored in a WatchedQuery: terms and blanks
WatchedQueries ==
  QueueTerms
  \cup {<<"accept", ":", "fam">>, <<"watch", ":", "paolo">>, <<"!", "accept", ":", "me">>,
        <<"maint", ":", "me">>, <<"is", ":", "reviewed">>, <<"!", "is", ":", "reviewed">>,
        <<"is", ":", "complete">>, <<"S">>, <<"regression">>, <<"from", ":", "paolo">>,
        <<"age", ":", ">", "1", "w">>, <<"id", ":", "c">>, <<"project", ":", "QEMU">>,
        <<"is", ":", "pull">>, <<"age", ":">>, << >>, <<" ">>,
        <<"is", ":", "complete", " ", "S">>,
        <<" ", "is", ":", "reviewed", " ", " ", "accept", ":", "fam", " ">>,
        <<"S", " ", "watch", ":", "me">>}

\* who asks what, when queues are watched
WatchRequests == Callers \X {query_terms(query) : query \in WatchedQueries}

\* SearchEngine().query_test_message(query, message) for a stored message
QueryTestMessage(max) ==
  /\ Idle
  /\ calls < max
  /\ \E query \in WatchedQueries, m \in rows :
       \E out \in {query_test_message(query, m, SearchDb)} :
         last' = [prev |-> out.keywords, op |-> "query_test_message",
                  arg |-> <<m.message_id, query>>, raised |-> out.raised, ret |-> out.ret]
  /\ calls' = calls + 1
  /\ UNCHANGED <<rows, nextPk, nextTopic, emitted, pool, config, now, pc, arg, topic,
                 msg, s, ret, results, nextResult, queued, nextQueued>>

\* SearchEngine().search_series(*terms, user=user) for one of the requests
SearchAs(max, requests) ==
  /\ Idle
  /\ calls < max
  /\ \E req \in requests :
       \E out \in {search_series(req[2], req[1], series_heads(rows), SearchDb)} :
         last' = [prev |-> out.keywords, op |-> "search_series", arg |-> req,
                  raised |-> out.raised, ret |-> out.ret]
  /\ calls' = calls + 1
  /\ UNCHANGED <<rows, nextPk, nextTopic, emitted, pool, config, now, pc, arg, topic,
                 msg, s, ret, results, nextResult, queued, nextQueued>>

\* SearchEngine().search_series(*terms, user=user): prev keeps last_keywords()
Search(max) ==
  /\ Idle
  /\ calls < max
  /\ \E req \in Requests :
       \E out \in {search_series(req[2], req[1], series_heads(rows), SearchDb)} :
         last' = [prev |-> out.keywords, op |-> "search_series", arg |-> req,
                  raised |-> out.raised, ret |-> out.ret]
  /\ calls' = calls + 1
  /\ UNCHANGED <<rows, nextPk, nextTopic, emitted, pool, config, now, pc, arg, topic,
                 msg, s, ret, results, nextResult, queued, nextQueued>>

\* p.recognizes(m) for a project and a mail of the pool; 1 is True
Recognize(max) ==
  /\ Idle
  /\ calls < max
  /\ \E item \in pool :
       last' = [prev |-> "", op |-> "recognizes", arg |-> item, raised |-> "",
                ret |-> IF recognizes(item[1], item[2]) THEN 1 ELSE 0]
  /\ calls' = calls + 1
  /\ UNCHANGED <<rows, nextPk, nextTopic, emitted, pool, config, now, pc, arg, topic,
                 msg, s, ret, results, nextResult, queued, nextQueued>>

\* the prefix tags whose numbering is read: up to MaxTagLen characters
RECURSIVE TagsOfLen(_)
TagsOfLen(n) ==
  IF n = 0 THEN {<< >>}
  ELSE {Append(tag, ch) : tag \in TagsOfLen(n - 1), ch \in {"1", "2", "/", "x"}}

NumTags == UNION {TagsOfLen(n) : n \in 1..MaxTagLen}

\* the lists of prefix tags: a tag alone, after a tag without a slash, and
\* before another tag with or without a numbering; no tag at all
NumPrefixes ==
  {<< >>}
  \cup UNION {{<<tag>>, << <<"P", "A", "T", "C", "H">>, tag >>, << tag, <<"3", "/", "4">> >>,
               << tag, <<"v", "2">> >>} : tag \in NumTags}

\* the messages whose numbering is read: patches, series heads and others
NumMessages ==
  [prefixes : NumPrefixes, is_patch : BOOLEAN, topic : {0, 1}]

\* m.get_num() for the message m at hand
GetNum ==
  /\ Idle
  /\ last.op = "message"
  /\ \E out \in {get_num_asserted(last.arg)} :
       last' = [prev |-> "", op |-> "get_num", arg |-> last.arg, raised |-> out.raised,
                ret |-> out.ret]
  /\ calls' = calls + 1
  /\ UNCHANGED <<rows, nextPk, nextTopic, emitted, pool, config, now, pc, arg, topic,
                 msg, s, ret, results, nextResult, queued, nextQueued>>

\* ------------------------------------------------------------------------
\* Specifications

InitSite(requests, tags) ==
  /\ config = tags
  /\ now = Today * Day
  /\ rows = {}
  /\ nextPk = 1
  /\ nextTopic = 1
  /\ emitted = EmptyBag
  /\ calls = 0
  /\ pool = requests
  /\ pc = [p \in Procs |-> "idle"]
  /\ arg = [p \in Procs |-> NoArg]
  /\ topic = [p \in Procs |-> 0]
  /\ msg = [p \in Procs |-> 0]
  /\ s = [p \in Procs |-> NoRow]
  /\ ret = [p \in Procs |-> 0]
  /\ results = {}
  /\ nextResult = 1
  /\ queued = {}
  /\ nextQueued = 1
  /\ last = NoLast

\* a site that runs the module tags with its default configuration
InitWith(requests) == InitSite(requests, default_config)

\* one worker: requests are served one after the other
Init == InitWith(SeqPool)
Next == Begin(1, MaxIngest) \/ Run(1)
Spec == Init /\ [][Next]_vars

\* two workers serve requests at the same time
ConcInit == InitWith(ConcPool)
ConcNext == \E p \in Procs : Begin(p, MaxConcIngest) \/ Run(p)
ConcSpec == ConcInit /\ [][ConcNext]_vars

\* one worker, mails whose in-reply-to ids form loops or name no stored
\* message; a request that can take a step takes one
LoopInit == InitWith(LoopPool)
LoopSpec == LoopInit /\ [][Next]_vars /\ WF_vars(Next)

\* one worker, whole requests, mods/tags.py loaded: ingestion by create and
\* by add_message_from_mbox
MboxInit == InitWith(MboxPool)
MboxNext == CreateRequest(MaxMbox) \/ AddFromMbox(MaxMbox)
MboxSpec == MboxInit /\ [][MboxNext]_vars

\* ... ingestion, deletion of subthreads and update_tags
ThreadInit == InitWith(ThreadPool)
ThreadNext ==
  \/ CreateRequest(MaxThread)
  \/ DeleteSubthread(MaxThread)
  \/ UpdateTags(MaxThread)
ThreadSpec == ThreadInit /\ [][ThreadNext]_vars

\* ... ingestion and results
ResultInit == InitWith(ResultPool)
ResultNext ==
  \/ CreateRequest(MaxResult)
  \/ NewResult(MaxResult)
  \/ SaveResult(MaxResult)
ResultSpec == ResultInit /\ [][ResultNext]_vars

\* ... ingestion and the queues of mods/maintainer.py
QueueInit == InitWith(QueuePool)
QueueNext ==
  \/ CreateRequest(MaxQueue)
  \/ add_to_queue(MaxQueue)
  \/ drop_from_queue(MaxQueue)
QueueSpec == QueueInit /\ [][QueueNext]_vars

\* ... ingestion with "Reviewed-by" among the configured tags
ReviewInit == InitSite(ReviewPool, documented_config)
ReviewNext == CreateRequest(MaxReview)
ReviewSpec == ReviewInit /\ [][ReviewNext]_vars

\* ... ingestion of several revisions of a series into two projects
ObsoleteInit == InitWith(ObsoletePool)
ObsoleteNext == CreateRequest(MaxObsolete)
ObsoleteSpec == ObsoleteInit /\ [][ObsoleteNext]_vars

\* ... ingestion and deletion of subthreads, the same configuration
RetractInit == InitSite(RetractPool, documented_config)
RetractNext == CreateRequest(MaxRetract) \/ DeleteSubthread(MaxRetract)
RetractSpec == RetractInit /\ [][RetractNext]_vars


\* searches in an archive
SearchInit ==
  /\ config = default_config
  /\ \E site \in SearchSites :
       /\ rows = flagged(site[1], site[2])
       /\ nextPk = Cardinality(site[1]) + 1
       /\ results = result_rows(site[3], site[1], 1)
       /\ nextResult = Cardinality(site[3]) + 1
       /\ now = site[4]
  /\ nextTopic = 3
  /\ emitted = EmptyBag
  /\ calls = 0
  /\ pool = {}
  /\ pc = [p \in Procs |-> "idle"]
  /\ arg = [p \in Procs |-> NoArg]
  /\ topic = [p \in Procs |-> 0]
  /\ msg = [p \in Procs |-> 0]
  /\ s = [p \in Procs |-> NoRow]
  /\ ret = [p \in Procs |-> 0]
  /\ queued = {}
  /\ nextQueued = 1
  /\ last = NoLast
SearchNext == Search(MaxSearch)
SearchSpec == SearchInit /\ [][SearchNext]_vars

\* projects that require and forbid prefix tags: tests and ingestion
RecognizeInit == InitWith(RecognizePool)
RecognizeNext == Recognize(MaxRecognize) \/ AddFromMbox(MaxRecognize)
RecognizeSpec == RecognizeInit /\ [][RecognizeNext]_vars

\* the numbering of one message is read
NumInit ==
  /\ config = default_config
  /\ now = Today * Day
  /\ rows = {}
  /\ nextPk = 1
  /\ nextTopic = 1
  /\ emitted = EmptyBag
  /\ calls = 0
  /\ pool = {}
  /\ pc = [p \in Procs |-> "idle"]
  /\ arg = [p \in Procs |-> NoArg]
  /\ topic = [p \in Procs |-> 0]
  /\ msg = [p \in Procs |-> 0]
  /\ s = [p \in Procs |-> NoRow]
  /\ ret = [p \in Procs |-> 0]
  /\ results = {}
  /\ nextResult = 1
  /\ queued = {}
  /\ nextQueued = 1
  /\ \E m \in NumMessages :
       last = [prev |-> "", op |-> "message", arg |-> m, raised |-> "", ret |-> << >>]
NumNext == GetNum
NumSpec == NumInit /\ [][NumNext]_vars

\* searches and tests of watched queries in an archive with queues
WatchInit ==
  /\ config = default_config
  /\ now = Today * Day
  /\ \E site \in WatchSites :
       /\ rows = flagged(site[1], site[2])
       /\ nextPk = Cardinality(site[1]) + 1
       /\ queued = queued_rows(site[3], site[1], 1)
       /\ nextQueued = Cardinality(site[3]) + 1
  /\ nextTopic = 3
  /\ emitted = EmptyBag
  /\ calls = 0
  /\ pool = {}
  /\ pc = [p \in Procs |-> "idle"]
  /\ arg = [p \in Procs |-> NoArg]
  /\ topic = [p \in Procs |-> 0]
  /\ msg = [p \in Procs |-> 0]
  /\ s = [p \in Procs |-> NoRow]
  /\ ret = [p \in Procs |-> 0]
  /\ results = {}
  /\ nextResult = 1
  /\ last = NoLast
WatchNext == SearchAs(MaxWatch, WatchRequests) \/ QueryTestMessage(MaxWatch)
WatchSpec == WatchInit /\ [][WatchNext]_vars

\* a site with the series c, p1, p2 and the one-patch series s, a pending
\* result "git" of c, and users who review, queue and merge
MaintInit ==
  /\ config = default_config
  /\ now = Today * Day
  /\ rows = imported(<<"c", "p1", "p2", "s">>, NoDb)
  /\ nextPk = 5
  /\ nextTopic = 3
  /\ emitted = EmptyBag
  /\ calls = 0
  /\ pool = {}
  /\ pc = [p \in Procs |-> "idle"]
  /\ arg = [p \in Procs |-> NoArg]
  /\ topic = [p \in Procs |-> 0]
  /\ msg = [p \in Procs |-> 0]
  /\ s = [p \in Procs |-> NoRow]
  /\ ret = [p \in Procs |-> 0]
  /\ results = result_rows({<<git, "pending">>}, rows, 1)
  /\ nextResult = 2
  /\ queued = {}
  /\ nextQueued = 1
  /\ last = NoLast
MaintNext ==
  \/ SeriesUpdate(MaxMaint)
  \/ www_view_mark_accepted(MaxMaint)
  \/ www_view_mark_rejected(MaxMaint)
  \/ www_view_clear_reviewed(MaxMaint)
  \/ www_view_add_to_queue(MaxMaint)
  \/ www_view_drop_from_queue(MaxMaint)
  \/ SaveResult(MaxMaint)
MaintSpec == MaintInit /\ [][MaintNext]_vars

\* ------------------------------------------------------------------------
\* Properties

\* the stored message of a project with a message id (none: NoRow)
Lookup(db, project, id) ==
  IF \E r \in db : r.project = project /\ r.message_id = id
  THEN CHOOSE r \in db : r.project = project /\ r.message_id = id
  ELSE NoRow

Count(name, pk) == CopiesIn(<<name, pk>>, emitted)

\* C1: create called for a (project, message id) that is stored returns the
\* stored record at once: no row is added or changed, no Topic is made and
\* no event is emitted.
C1_CreateIdempotent ==
  [][ (pc[1] = "create" /\ Lookup(rows, arg[1][1], arg[1][2]) # NoRow)
      => /\ pc'[1] = "idle"
         /\ ret'[1] = Lookup(rows, arg[1][1], arg[1][2]).pk
         /\ rows' = rows
         /\ nextPk' = nextPk
         /\ nextTopic' = nextTopic
         /\ emitted' = emitted ]_vars

\* a call has returned a record that was stored before the previous one
C1_Witness ==
  /\ pc[1] = "idle"
  /\ ret[1] > 0
  /\ ret[1] < nextPk - 1
  /\ calls > Cardinality(rows)

\* C2: at most one stored message per (project, message id), whatever the
\* interleaving of the two workers.
C2_UniqueMessage ==
  \A r1, r2 \in rows :
    (r1.project = r2.project /\ r1.message_id = r2.message_id) => r1.pk = r2.pk

\* both workers ingested the same message at once: one stored it, the INSERT
\* of the other was refused
C2_Witness ==
  \E p, q \in Procs :
    /\ p # q
    /\ ret[p] = -1
    /\ ret[q] > 0
    /\ pc[p] = "idle" /\ pc[q] = "idle"

\* C3: get_series_head terminates on every stored reply graph, so every
\* create call that has reached it returns.
C3_Terminates == (pc[1] = "head") ~> (pc[1] = "idle")


\* the k-th message up the reply chain of m: parents are the stored messages
\* of m's project whose id is the in-reply-to id
RECURSIVE Ancestor(_, _, _)
Ancestor(db, m, k) ==
  IF k = 0 THEN m
  ELSE LET a == Ancestor(db, m, k - 1)
       IN IF a = NoRow \/ in_reply_to(a) = "" THEN NoRow
          ELSE Lookup(db, a.project, in_reply_to(a))

\* how far up the chain of m the messages with a Topic are
HeadDepths(db, m) ==
  {k \in 0..Cardinality(db) : Ancestor(db, m, k) # NoRow /\ Ancestor(db, m, k).topic # 0}

Least(ks) == CHOOSE k \in ks : \A j \in ks : k <= j

\* C4: when get_series_head(msg) ends, it returns the nearest message up the
\* reply chain of msg (msg included) that has a Topic, and none when the
\* chain ends before such a message.
C4_NearestHead ==
  [][ (pc[1] = "head" /\ pc'[1] # "head" /\ pc'[1] # "parent")
      => LET m == Lookup(rows, arg[1][1], arg[1][2])
             ks == HeadDepths(rows, m)
         IN IF pc'[1] = "reply"
            THEN ks # {} /\ s[1].pk = Ancestor(rows, m, Least(ks)).pk
            ELSE ks = {} ]_vars

\* the head of a reply to a patch was found two messages up
C4_Witness ==
  /\ pc[1] = "reply"
  /\ arg[1] = <<"QEMU", "r">>
  /\ s[1].message_id = "c"
  /\ \E o \in rows : o.project = "QEMU2" /\ o.message_id = "c"

\* the direct-reply patches of head h that carry index i
Carriers(db, h, i) ==
  {q \in db : /\ q.project = h.project
              /\ Mail[q.message_id].in_reply_to = h.message_id
              /\ Mail[q.message_id].is_patch
              /\ get_num(q)[1] = i}

HeadIsLonePatch(h) == Mail[h.message_id].is_patch /\ get_num(h)[1] = get_num(h)[2]

\* C5, as claimed: an ingestion that resolves to an incomplete head s ends
\* with s complete exactly when s is a patch with cur = total or every index
\* of 1..total is carried by exactly one direct-reply patch.
C5_ExactlyOneCarrier ==
  [][ (pc[1] = "complete" /\ ~Row(rows, s[1].pk).is_complete)
      => (Row(rows', s[1].pk).is_complete
          <=> \/ HeadIsLonePatch(s[1])
              \/ \A i \in 1..get_num(s[1])[2] :
                   Cardinality(Carriers(rows, s[1], i)) = 1) ]_vars

\* C5, amended: ... exactly when s is a patch with cur = total or every
\* index of 1..total is carried by at least one direct-reply patch; a
\* repeated index does not keep the series incomplete.
C5_EveryIndexCarried ==
  [][ (pc[1] = "complete" /\ ~Row(rows, s[1].pk).is_complete)
      => (Row(rows', s[1].pk).is_complete
          <=> \/ HeadIsLonePatch(s[1])
              \/ \A i \in 1..get_num(s[1])[2] : Carriers(rows, s[1], i) # {}) ]_vars

\* a cover letter became complete although one index came twice
C5_Witness ==
  \E h \in rows :
    /\ h.is_complete
    /\ ~Mail[h.message_id].is_patch
    /\ Cardinality(Carriers(rows, h, 1)) = 2
    /\ Carriers(rows, h, 2) # {}
    /\ pc[1] = "idle"

\* C6: with one worker, a stored is_complete = TRUE stays TRUE.
C6_CompleteStays ==
  [][ \A r \in rows : r.is_complete => Row(rows', r.pk).is_complete ]_vars

\* a message was ingested into a series that was complete before
C6_Witness ==
  \E h, q \in rows :
    /\ h.is_complete
    /\ q.pk = nextPk - 1
    /\ q.project = h.project
    /\ Mail[q.message_id].in_reply_to \in {h.message_id, "p1"}
    /\ h.message_id = "c"
    /\ \A i \in 1..2 : Carriers(rows \ {q}, h, i) # {}
    /\ pc[1] = "idle"

\* the head h was stored before all of its direct-reply patches
HeadFirst(db, h) ==
  \A q \in db :
    (q.project = h.project /\ Mail[q.message_id].in_reply_to = h.message_id
     /\ Mail[q.message_id].is_patch) => h.pk < q.pk

\* C7: a head stored before its patches is complete after an ingestion
\* exactly when no index of 1..total is missing any more, and SeriesComplete
\* has been emitted once for a complete head and never for an incomplete one,
\* whatever was ingested since.
C7_CompleteOnce ==
  \A h \in rows :
    (h.topic # 0 /\ HeadFirst(rows, h)) =>
      /\ Count("SeriesComplete", h.pk) = (IF h.is_complete THEN 1 ELSE 0)
      /\ pc[1] = "idle" =>
           (h.is_complete <=>
              \/ HeadIsLonePatch(h)
              \/ \A i \in 1..get_num(h)[2] : Carriers(rows, h, i) # {})

\* cover letter, 1/2, 2/2 in this order, then one more message of the series
C7_Witness ==
  /\ pc[1] = "idle"
  /\ \E h, q1, q2, q3 \in rows :
       /\ h.message_id = "c" /\ q1.message_id = "p1" /\ q2.message_id = "p2"
       /\ {q1.project, q2.project, q3.project} = {h.project}
       /\ h.pk = 1 /\ q1.pk = 2 /\ q2.pk = 3 /\ q3.pk = 4
       /\ h.is_complete
       /\ Count("SeriesComplete", h.pk) = 1


\* C8: with two workers ingesting messages of one series, SeriesComplete is
\* emitted at most once for the series.
C8_CompleteEmittedOnce ==
  \A h \in rows : Count("SeriesComplete", h.pk) <= 1

\* C9: with two workers, a worker that saves its copy of the series head
\* (for last_reply_date, last_comment_date or num_patches) never replaces a
\* stored is_complete = TRUE by FALSE.
C9_SaveKeepsComplete ==
  [][ \A p \in Procs :
        (pc[p] \in {"reply", "comment", "refresh"} /\ pc'[p] # pc[p]
         /\ Row(rows, s[p].pk).is_complete)
        => Row(rows', s[p].pk).is_complete ]_vars

\* the series heads stored with a stripped subject
HeadsOf(db, subject) ==
  {h \in db : h.topic # 0 /\ Mail[h.message_id].stripped_subject = subject}

\* C10: with one worker, the heads of one stripped subject all have the same
\* Topic; for_stripped_subject makes a new Topic when no stored head has the
\* subject and otherwise returns the Topic of a most recently dated head.
C10_OneTopicPerSubject ==
  /\ [](\A h1, h2 \in rows :
          (h1.topic # 0 /\ h2.topic # 0
           /\ Mail[h1.message_id].stripped_subject = Mail[h2.message_id].stripped_subject)
          => h1.topic = h2.topic)
  /\ [][ pc[1] = "topic" =>
           LET hs == HeadsOf(rows, Mail[arg[1][2]].stripped_subject)
           IN IF hs = {}
              THEN /\ nextTopic' = nextTopic + 1
                   /\ topic'[1] = nextTopic
                   /\ \A h \in rows : h.topic # topic'[1]
              ELSE /\ nextTopic' = nextTopic
                   /\ \E h \in hs : /\ topic'[1] = h.topic
                                    /\ \A o \in hs : Mail[o.message_id].date
                                                       <= Mail[h.message_id].date ]_vars

\* the cover letter is stored in both projects under one Topic, next to a
\* head of another subject under another Topic
C10_Witness ==
  \E h1, h2, h3 \in rows :
    /\ h1.message_id = "c" /\ h2.message_id = "c" /\ h3.message_id = "s"
    /\ h1.project # h2.project
    /\ h1.topic # 0 /\ h1.topic = h2.topic
    /\ h3.topic # 0 /\ h3.topic # h1.topic

\* C11: with two workers, series heads of one stripped subject that are
\* ingested at the same time end up under one and the same Topic: no second
\* Topic is made for the subject.
C11_OneTopicConcurrent ==
  \A h1 \in rows : \A h2 \in HeadsOf(rows, stripped_subject(h1)) :
    h1.topic # 0 => h1.topic = h2.topic

\* the step is a call of add_message_from_mbox for message id
MboxCall(id) ==
  /\ calls' = calls + 1
  /\ last'.op = "add_message_from_mbox"
  /\ last'.arg[2] = id

\* the message id is stored in a project that recognises it
StoredIn(db, id) ==
  {r \in db : r.message_id = id /\ recognizes(r.project, id)}

C13_AllOrNothing ==
  [][ \A id \in DOMAIN Mail :
        (MboxCall(id) /\ last'.raised # "")
        => /\ \A r \in rows' : r.message_id = id => \E o \in rows : o.pk = r.pk
           /\ \A r \in rows' : Count("MessageAdded", r.pk)' = Count("MessageAdded", r.pk) ]_vars

\* the stored messages whose series head is h, h itself left out
RepliesOf(db, h) ==
  {m \in db : /\ m.pk # h.pk
               /\ HeadDepths(db, m) # {}
               /\ Ancestor(db, m, Least(HeadDepths(db, m))).pk = h.pk}

\* C14: with one worker, the ingestion of a message into the series of head
\* s leaves last_comment_date of s alone when the sender is the sender of
\* s, sets it to the date of the message when the sender is another one and
\* the date is later (or none is set); any message with a later date sets
\* last_reply_date; so a series all of whose replies come from the sender of
\* its head is not matched by has:replies.
C14_HasRepliesGuard ==
  /\ [][ pc[1] = "comment" =>
           LET m == Mail[arg[1][2]]
               old == Row(rows, s[1].pk).last_comment_date
               new == Row(rows', s[1].pk).last_comment_date
           IN IF m.sender = Mail[s[1].message_id].sender THEN new = old
              ELSE IF old = 0 \/ old < m.date THEN new = m.date
              ELSE new = old ]_vars
  /\ [][ pc[1] = "reply" =>
           LET m == Mail[arg[1][2]]
               old == Row(rows, s[1].pk).last_reply_date
               new == Row(rows', s[1].pk).last_reply_date
           IN IF old = 0 \/ old < m.date THEN new = m.date ELSE new = old ]_vars
  /\ [](\A h \in rows :
          (h.topic # 0 /\ \A m \in RepliesOf(rows, h) :
                            Mail[m.message_id].sender = Mail[h.message_id].sender)
          => ~has_replies(h))

\* one series has its patch from the sender of the cover letter only and is
\* not matched; the other has a later reply of somebody else and is matched
C14_Witness ==
  /\ pc[1] = "idle"
  /\ \E h1, h2 \in rows :
       /\ h1.topic # 0 /\ h2.topic # 0
       /\ RepliesOf(rows, h1) # {}
       /\ h1.last_reply_date = 2
       /\ ~has_replies(h1)
       /\ \E m \in RepliesOf(rows, h2) : Mail[m.message_id].sender = "bob"
       /\ h2.last_reply_date = 3
       /\ h2.last_comment_date = 3

\* the messages of m's project that are reachable from m through reply
\* links in at most n steps
RECURSIVE Reachable(_, _, _)
Reachable(db, m, n) ==
  IF n = 0 THEN {m}
  ELSE LET near == Reachable(db, m, n - 1)
       IN near \cup {o \in db : o.project = m.project
                               /\ \E q \in near :
                                    Mail[o.message_id].in_reply_to = q.message_id}

\* the step is a call of delete_subthread
DeleteCall == calls' = calls + 1 /\ last'.op = "delete_subthread"

\* C15: delete_subthread(m) removes m and every message reachable from m
\* through reply links within the project of m, and no other message.
C15_DeleteSubthread ==
  [][ DeleteCall
      => rows' = rows \ Reachable(rows, Row(rows, last'.ret), Cardinality(rows)) ]_vars

\* C16: for every subject (a project or a message) and every result name at
\* most one Result is stored: saving a new Result with the name of a stored
\* one does not add a second.
C16_OneResultPerName ==
  \A x, y \in results :
    (x.message = y.message /\ x.project = y.project /\ x.name = y.name) => x.pk = y.pk

\* how many events of a name have been emitted
Emitted(em, name) ==
  BagCardinality([e \in {e \in BagToSet(em) : e[1] = name} |-> em[e]])

\* the stored memberships of a (user, message, queue name)
Memberships(q, triple) ==
  {x \in q : <<x.user, x.message, x.name>> = triple}

\* C17: a (user, message, queue name) is stored at most once; _add_to_queue
\* for a stored membership changes no membership and emits nothing, and for
\* a new one stores one membership and emits one MessageQueued.
C17_MembershipOnce ==
  /\ [](\A x \in queued :
          Cardinality(Memberships(queued, <<x.user, x.message, x.name>>)) = 1)
  /\ [][ (calls' = calls + 1 /\ last'.op = "add_to_queue") =>
           IF Memberships(queued, last'.arg) # {}
           THEN queued' = queued /\ emitted' = emitted
           ELSE /\ Cardinality(Memberships(queued', last'.arg)) = 1
                /\ Cardinality(queued') = Cardinality(queued) + 1
                /\ Emitted(emitted', "MessageQueued")
                     = Emitted(emitted, "MessageQueued") + 1 ]_vars

\* a series was added to a queue it was in: one membership, one MessageQueued
C17_Witness ==
  /\ last.op = "add_to_queue"
  /\ last.ret = 0
  /\ Cardinality(Memberships(queued, last.arg)) = 1
  /\ Cardinality(queued) = 1
  /\ Emitted(emitted, "MessageQueued") = 1
  /\ Emitted(emitted, "MessageDropping") = 0

\* the stored value of the property "tags" of r
StoredTags(r) == IF "tags" \in DOMAIN r.properties THEN r.properties["tags"] ELSE {}

\* how often a line stands among the first n lines of a body
Occurrences(ls, l, n) == Cardinality({i \in 1..n : ls[i] = l})

\* the number of lines of a body above its first "---" line
DiffAt(ls) ==
  IF \E i \in 1..Len(ls) : ls[i][1] = "---"
  THEN (CHOOSE i \in 1..Len(ls) : ls[i][1] = "---" /\ \A j \in 1..(i - 1) : ls[j][1] # "---") - 1
  ELSE Len(ls)

\* whether a line begins with a tag of the configuration and a colon
IsTagLine(l) ==
  /\ Len(l) >= 2
  /\ \/ Lower(l[1]) \in {"tested-by", "reported-by", "acked-by", "suggested-by"} /\ l[2] = ":"
     \/ Lower(l[1]) \in {"reviewed-by", "based-on"} /\ l[2] = ":" /\ Len(l) >= 3 /\ l[3] = ":"

\* C18, as claimed: parse_message_tags extracts the tag lines that stand
\* above the first "---" line of the body, and none that stands below it.
C18_StopsAtDiff ==
  \A r \in rows : \A l \in {Mail[r.message_id].body[i] : i \in 1..Len(Mail[r.message_id].body)} :
    CopiesIn(l, parse_message_tags(r))
      = (IF IsTagLine(l)
         THEN Occurrences(Mail[r.message_id].body, l, DiffAt(Mail[r.message_id].body))
         ELSE 0)

\* C18, amended: parse_message_tags extracts every tag line of the body,
\* those below the first "---" line as well.
C18_ScansWholeBody ==
  \A r \in rows : \A l \in {Mail[r.message_id].body[i] : i \in 1..Len(Mail[r.message_id].body)} :
    CopiesIn(l, parse_message_tags(r))
      = (IF IsTagLine(l)
         THEN Occurrences(Mail[r.message_id].body, l, Len(Mail[r.message_id].body))
         ELSE 0)

\* the tags stored for patch 1/2 hold the Tested-by line that stands below
\* the "---" of its body
C18_Witness ==
  \E r \in rows :
    /\ r.message_id = "p1"
    /\ Mail["p1"].body[3] = <<"---">>
    /\ Mail["p1"].body[4] \in StoredTags(r)

\* m and the messages reachable from m through replies that are no patches,
\* in at most n steps
RECURSIVE Commenters(_, _, _)
Commenters(db, m, n) ==
  IF n = 0 THEN {m}
  ELSE LET near == Commenters(db, m, n - 1)
       IN near \cup {o \in db : /\ o.project = m.project
                                 /\ ~Mail[o.message_id].is_patch
                                 /\ \E q \in near :
                                      Mail[o.message_id].in_reply_to = q.message_id}

\* the tag lines of the body of a message
TagLinesOf(m) ==
  {l \in {Mail[m.message_id].body[i] : i \in 1..Len(Mail[m.message_id].body)} : IsTagLine(l)}

\* C19: look_for_tags(m) returns the tag lines of the body of m and of the
\* messages reachable from m through replies that are no patches, and no
\* line that stands only in a patch reply or below one.
C19_CollectTags ==
  \A m \in rows :
    LET r == look_for_tags(rows, m, 0)
    IN ~r.raised =>
         BagToSet(r.tags)
           = UNION {TagLinesOf(x) : x \in Commenters(rows, m, Cardinality(rows))}

\* the cover letter has a reply with a tag line, and a patch with a tag line
\* that has a reply with a tag line: the stored tags of the cover letter are
\* those of the reply to it
C19_Witness ==
  \E h, q, x, y \in rows :
    /\ h.message_id = "c" /\ q.message_id = "p1"
    /\ x.message_id = "r" /\ y.message_id = "rc"
    /\ {q.project, x.project, y.project} = {h.project}
    /\ TagLinesOf(q) # {} /\ TagLinesOf(x) # {}
    /\ StoredTags(h) = TagLinesOf(y)
    /\ StoredTags(h) # {}

\* the step is a call of update_tags
UpdateTagsCall == calls' = calls + 1 /\ last'.op = "update_tags" /\ last'.raised = ""

\* C20: update_tags(s) returns True exactly when the stored tags differ, as
\* sets, from the collected ones, and stores the collected ones; called once
\* more at once, it returns no True, emits nothing and stores nothing.
C20_UpdateTagsIdempotent ==
  /\ [][ UpdateTagsCall =>
           LET m == Lookup(rows, last'.arg[1], last'.arg[2])
               new == UNION {TagLinesOf(x) : x \in Commenters(rows, m, Cardinality(rows))}
           IN /\ last'.ret <=> (StoredTags(m) # new)
              /\ StoredTags(Row(rows', m.pk)) = new ]_vars
  /\ [][ (UpdateTagsCall /\ last.op = "update_tags" /\ last'.arg = last.arg) =>
           /\ ~last'.ret
           /\ emitted' = emitted
           /\ rows' = rows ]_vars

\* update_tags returned True and, called again for the message, did not
C20_Witness ==
  /\ last.op = "update_tags"
  /\ last.prev = "True"
  /\ ~last.ret
  /\ \E l \in StoredTags(Lookup(rows, last.arg[1], last.arg[2])) :
       Cardinality({x \in rows : l \in TagLinesOf(x)}) > 1

\* ------------------------------------------------------------------------
\* The review state of a series (mods/tags.py)

reviewed(r) == get_property(r, "reviewed", FALSE)

\* the series whose MessageAdded the last request handled
HandledSeries ==
  IF last.op = "create" /\ last.raised = "" /\ Row(rows, last.ret) # NoRow
  THEN walk_to_head(rows, Row(rows, last.ret), 0)
  ELSE NoRow

\* every index 1..total of series h has a stored patch with a reviewer
EveryPatchReviewed(db, h) ==
  \A i \in 1..get_num(h)[2] :
    \E q \in get_patches(db, h) : patch_num(q) = i /\ find_reviewers(q) # {}

\* what the review of series h rests on
ReviewJustified(db, h) == EveryPatchReviewed(db, h) \/ find_reviewers(h) # {}

\* C21: once the module tags has handled a MessageAdded of series s, s is
\* marked reviewed exactly when every patch index of s has a patch with a
\* Reviewed-by reviewer or the cover letter carries a Reviewed-by tag
C21_ReviewedExactly ==
  HandledSeries # NoRow =>
    (reviewed(HandledSeries) <=> ReviewJustified(rows, HandledSeries))

\* C22: once the module tags has handled a MessageAdded of series s, s is
\* not marked reviewed when no tag that justifies it is stored any more
C22_NotLatched ==
  HandledSeries # NoRow /\ reviewed(HandledSeries) =>
    ReviewJustified(rows, HandledSeries)

\* ------------------------------------------------------------------------
\* Obsoleted revisions (mods/tags.py)

\* the stored revisions that obsolete the series head b
Obsoleting(db, b) ==
  {a \in db : /\ is_series_head(a)
              /\ a.project = b.project /\ a.topic = b.topic
              /\ Mail[a.message_id].version > Mail[b.message_id].version
              /\ Mail[a.message_id].date >= Mail[b.message_id].date}

\* C23: after sequential ingestions a series head carries the property
\* obsoleted-by exactly when a stored head of its project and Topic has a
\* higher version and no earlier date, and the property names such a head
C23_ObsoletedBy ==
  \A b \in {r \in rows : is_series_head(r)} :
    IF Obsoleting(rows, b) = {}
    THEN "obsoleted-by" \notin DOMAIN b.properties
    ELSE /\ "obsoleted-by" \in DOMAIN b.properties
         /\ b.properties["obsoleted-by"] \in {a.message_id : a \in Obsoleting(rows, b)}

\* three revisions of one series are stored, one of them obsoleted by two
\* others, and a revision of a higher version, dated before one of a lower
\* version, is not what the property of that one names
C23_Witness ==
  /\ \E b \in rows : Cardinality(Obsoleting(rows, b)) = 2
  /\ \E a, b \in rows :
       /\ is_series_head(a) /\ is_series_head(b)
       /\ a.project = b.project /\ a.topic = b.topic
       /\ Mail[a.message_id].version > Mail[b.message_id].version
       /\ Mail[a.message_id].date < Mail[b.message_id].date
       /\ get_property(b, "obsoleted-by", "") # a.message_id

\* ------------------------------------------------------------------------
\* Searches

\* what the caller fam gets for the terms in the present tables
found(terms) == search_series(terms, "fam", series_heads(rows), SearchDb)

\* the series of the archive
Heads == {r.pk : r \in series_heads(rows)}

\* the last request was the search of fam for the terms
Searched(terms) == last.op = "search_series" /\ last.arg = <<"fam", terms>>

\* C24: for every term the series that match !TERM are exactly the series
\* that do not match TERM
C24_NegationInverts ==
  \A t \in Terms :
    Searched(<< <<"!">> \o t >>) /\ found(<<t>>).raised = ""
      => last.raised = "" /\ last.ret = Heads \ found(<<t>>).ret

\* C25: for every flag X, not:X gives exactly the series that is:X does not
\* give, +X gives what is:X gives and -X gives what not:X gives
C25_FlagsOpposite ==
  \A x \in FlagNames :
    /\ Searched(<< <<"not", ":", x>> >>)
         => last.raised = "" /\ last.ret = Heads \ found(<< <<"is", ":", x>> >>).ret
    /\ Searched(<< <<"+", x>> >>)
         => last.raised = "" /\ last.ret = found(<< <<"is", ":", x>> >>).ret
    /\ Searched(<< <<"-", x>> >>)
         => last.raised = "" /\ last.ret = Heads \ found(<< <<"is", ":", x>> >>).ret

\* C26: !!is:reviewed gives the series that is:reviewed gives and adds no
\* keyword
C26_DoubleNegation ==
  Searched(<< <<"!", "!", "is", ":", "reviewed">> >>)
    => /\ last.raised = ""
       /\ last.ret = found(<< <<"is", ":", "reviewed">> >>).ret
       /\ last.prev = << >>

\* C27: a flag name that is none, after is:, not:, + or -, raises no error
\* and the term becomes a keyword
C27_UnknownFlagIsKeyword ==
  \A t \in {<<"is", ":", "bogus">>, <<"not", ":", "bogus">>, <<"+", "bogus">>,
             <<"-", "bogus">>} :
    Searched(<<t>>) => last.raised = "" /\ Len(last.prev) = 1

\* C28: an age expression that is no number followed by d, w, m or y, the
\* empty one after "age:", "age:>" and "age:<" included, raises
\* InvalidSearchTerm and no other error
C28_BadAgeIsInvalidSearchTerm ==
  \A t \in BadAgeTerms : Searched(<<t>>) => last.raised = "InvalidSearchTerm"

\* the days of the units of an age
UnitDays(unit) ==
  CASE unit = "d" -> 1 [] unit = "w" -> 7 [] unit = "m" -> 30 [] unit = "y" -> 365

\* the age terms of the searches: comparison, number and unit
AgeCases ==
  {[term |-> <<"age", ":", ">", "1", "w">>, less |-> FALSE, n |-> 1, unit |-> "w"],
   [term |-> <<"age", ":", "<", "1", "w">>, less |-> TRUE, n |-> 1, unit |-> "w"],
   [term |-> <<"age", ":", "1", "w">>, less |-> FALSE, n |-> 1, unit |-> "w"],
   [term |-> <<">", "1", "w">>, less |-> FALSE, n |-> 1, unit |-> "w"],
   [term |-> <<"<", "1", "w">>, less |-> TRUE, n |-> 1, unit |-> "w"],
   [term |-> <<"age", ":", ">", "1", "0", "d">>, less |-> FALSE, n |-> 10, unit |-> "d"],
   [term |-> <<"age", ":", "<", "1", "0", "d">>, less |-> TRUE, n |-> 10, unit |-> "d"],
   [term |-> <<"age", ":", "1", "m">>, less |-> FALSE, n |-> 1, unit |-> "m"],
   [term |-> <<"age", ":", "<", "1", "m">>, less |-> TRUE, n |-> 1, unit |-> "m"],
   [term |-> <<"age", ":", ">", "1", "y">>, less |-> FALSE, n |-> 1, unit |-> "y"],
   [term |-> <<"<", "1", "y">>, less |-> TRUE, n |-> 1, unit |-> "y"],
   [term |-> <<"age", ":", ">", "1", "W">>, less |-> FALSE, n |-> 1, unit |-> "w"],
   [term |-> <<"age", ":", "0", "d">>, less |-> FALSE, n |-> 0, unit |-> "d"]}

\* C29: an age filter of N units has the cutoff now - N * (1, 7, 30, 365)
\* days; with ">" or no comparison it gives the series dated at or before
\* the cutoff, with "<" the series dated at or after it
C29_AgeCutoff ==
  \A a \in AgeCases :
    Searched(<<a.term>>)
      => /\ last.raised = ""
         /\ last.ret =
              {r.pk : r \in {r \in series_heads(rows) :
                               IF a.less
                               THEN Mail[r.message_id].date * Day
                                      >= now - a.n * UnitDays(a.unit) * Day
                               ELSE Mail[r.message_id].date * Day
                                      <= now - a.n * UnitDays(a.unit) * Day}}

\* age:>1w gives the series c of 10 days ago and not the pull request of
\* yesterday
C29_Witness ==
  /\ Searched(<< <<"age", ":", ">", "1", "w">> >>)
  /\ now = Today * Day
  /\ last.ret = {r.pk : r \in {r \in rows : r.message_id = "c"}}
  /\ \E r \in series_heads(rows) : r.message_id = "pl"

\* the results of the series pk in the family of name: name itself and the
\* names that begin with name and "."
family(name, pk) ==
  {x \in results :
     /\ x.message = pk
     /\ \/ x.name = name
        \/ /\ Len(x.name) > Len(name)
           /\ SubSeq(x.name, 1, Len(name) + 1) = Append(name, ".")}

\* C30: success:NAME gives the series with a result in the family of NAME
\* and none there that is not a success; failure:, pending: and running:
\* give the series with a result of that status in the family
C30_ResultFamily ==
  \A w \in {"success", "failure", "pending", "running"} :
    Searched(<< <<w, ":">> \o git >>)
      => /\ last.raised = ""
         /\ last.ret =
              {r.pk : r \in {r \in series_heads(rows) :
                               IF w = "success"
                               THEN /\ family(git, r.pk) # {}
                                    /\ \A x \in family(git, r.pk) : x.status = "success"
                               ELSE \E x \in family(git, r.pk) : x.status = w}}

\* success:git gives the series whose git succeeded although its gitx failed
C30_Witness ==
  /\ Searched(<< <<"success", ":">> \o git >>)
  /\ \E x \in results : x.name = gitx /\ x.status = "failure" /\ x.message \in last.ret

\* the last request was the search of the caller for the terms
SearchedBy(user, terms) == last.op = "search_series" /\ last.arg = <<user, terms>>

\* the last request was the test of a stored message against the query
Tested(query) == last.op = "query_test_message" /\ last.arg[2] = query

\* C31: a queue term with the user "me" raises no error and matches no
\* series when the caller is anonymous or when there is no caller, as in
\* query_test_message
C31_MeWithoutCaller ==
  \A t \in QueueTerms :
    /\ \A user \in {NoUser, AnonymousUser} :
         SearchedBy(user, <<t>>) => last.raised = "" /\ last.ret = {}
    /\ Tested(t) => last.raised = "" /\ last.ret = {}

\* C32: for every query, caller and stored series head, query_test_message
\* returns the head exactly when search_series of the caller over all the
\* series heads returns it
C32_ScopeComposable ==
  \A query \in WatchedQueries, user \in Callers, m \in series_heads(rows) :
    Tested(query) /\ last.arg[1] = m.message_id
      => LET all == search_series(query_terms(query), user, series_heads(rows), SearchDb)
         IN /\ last.raised = all.raised
            /\ m.pk \in last.ret <=> m.pk \in all.ret

\* a string of decimal digits
IsInteger(x) == x # << >> /\ \A i \in 1..Len(x) : x[i] \in Digits

\* the tag is N/M or N/M/extra with integers N and M; the fields N and M
NumberingOf(tag) ==
  {<<SubSeq(tag, 1, p[1] - 1), SubSeq(tag, p[1] + 1, p[2] - 1)>> :
     p \in {p \in (1..Len(tag)) \X (2..(Len(tag) + 1)) :
              /\ p[1] < p[2]
              /\ tag[p[1]] = "/"
              /\ p[2] = Len(tag) + 1 \/ tag[p[2]] = "/"
              /\ IsInteger(SubSeq(tag, 1, p[1] - 1))
              /\ IsInteger(SubSeq(tag, p[1] + 1, p[2] - 1))}}

\* the tags of a list that contain a slash, in their order
SlashTags(tags) == SelectSeq(tags, LAMBDA tag : \E i \in 1..Len(tag) : tag[i] = "/")

\* what the claim says of the numbering of the message m
NumberingAsClaimed(m) ==
  /\ SlashTags(m.prefixes) = << >> => last.raised = "" /\ last.ret = <<1, 1>>
  /\ SlashTags(m.prefixes) # << >>
       => \A nm \in NumberingOf(Head(SlashTags(m.prefixes))) :
            last.raised = "" /\ last.ret = <<int(nm[1]), int(nm[2])>>

Configured ==
  [ QEMU |-> [lists |-> {"qemu-devel"}, required |-> {}, forbidden |-> {}],
    QEMU2 |-> [lists |-> {"qemu-devel"}, required |-> {}, forbidden |-> {}],
    Libvirt |-> [lists |-> {"libvir-list", "libvirt-list"}, required |-> {},
                 forbidden |-> {<<"p", "y">>}],
    LibvirtPython |-> [lists |-> {"libvir-list", "libvirt-list"},
                       required |-> {<<"p", "y">>}, forbidden |-> {}],
    Strict |-> [lists |-> {"libvirt-list"},
                required |-> {<<"/", "P", "A">>, <<"v", "2">>},
                forbidden |-> {<<"/", "R", "F">>}] ]

\* the tag matches the prefix: as a pattern at its beginning when led by
\* "/", else as the same word whatever the case of its letters
TagMatches(tag, prefix) ==
  IF Head(tag) = "/"
  THEN Len(prefix) >= Len(tag) - 1 /\ \A i \in 1..(Len(tag) - 1) : prefix[i] = tag[i + 1]
  ELSE Len(prefix) = Len(tag) /\ \A i \in 1..Len(tag) : LowerCh(prefix[i]) = LowerCh(tag[i])

\* the condition of the claim for a project and a mail
Recognized(project, id) ==
  /\ Mail[id].recipients \cap Configured[project].lists # {}
  /\ \A tag \in Configured[project].required :
       \E i \in 1..Len(Mail[id].prefixes) : TagMatches(tag, Mail[id].prefixes[i])
  /\ \A tag \in Configured[project].forbidden :
       \A i \in 1..Len(Mail[id].prefixes) : ~TagMatches(tag, Mail[id].prefixes[i])

\* C34: recognizes is true exactly when an address of the mail is a mailing
\* list of the project, every required tag matches a prefix and no
\* forbidden tag does; a mail is stored in the projects that recognize it
\* only, so one with the prefix that Libvirt forbids and its subproject
\* requires is stored in the subproject and not in Libvirt
C34_Recognizes ==
  /\ \A item \in RecognizePool :
       last.op = "recognizes" /\ last.arg = item
         => (last.ret = 1 <=> Recognized(item[1], item[2]))
  /\ \A r \in rows : Recognized(r.project, r.message_id)
  /\ last.op = "add_message_from_mbox" /\ last.raised = ""
       => \A project \in DOMAIN Project :
            Recognized(project, last.arg[2]) => stored(rows, <<project, last.arg[2]>>) # NoRow

\* the mail with the prefix PY is stored in the subproject alone
C34_Witness ==
  /\ last.op = "add_message_from_mbox"
  /\ last.arg[2] = "py"
  /\ stored(rows, <<"LibvirtPython", "py">>) # NoRow
  /\ stored(rows, <<"Libvirt", "py">>) = NoRow
  /\ {r.project : r \in rows} = {"LibvirtPython"}

\* the rows of the cover letter c (0/2) and of its patches p1 (1/2) and p2 (2/2)
\* in one project, once all three are stored
SeriesOfThree ==
  {tr \in rows \X rows \X rows :
     /\ tr[1].message_id = "c" /\ tr[2].message_id = "p1" /\ tr[3].message_id = "p2"
     /\ {tr[2].project, tr[3].project} = {tr[1].project}}

\* C35: once the cover letter 0/N and its patches 1..N, all direct replies to
\* it, have been ingested one after the other, in whatever order (patches
\* before the cover letter included), the head is complete and SeriesComplete
\* has been emitted exactly once for it.
C35_CompleteAnyOrder ==
  pc[1] = "idle" =>
    \A tr \in SeriesOfThree :
      /\ Row(rows, tr[1].pk).is_complete
      /\ Count("SeriesComplete", tr[1].pk) = 1

\* both patches were stored before their cover letter, or one before and one
\* after it
C35_Witness ==
  /\ pc[1] = "idle"
  /\ \E tr \in SeriesOfThree :
       /\ tr[2].pk < tr[1].pk
       /\ tr[1].is_complete
       /\ Count("SeriesComplete", tr[1].pk) = 1

\* the stored tags of the row m are the tags collected from the rows db
TagsCurrent(db, m) ==
  LET new == look_for_tags(db, m, 0)
  IN ~new.raised => StoredTags(m) = BagToSet(new.tags)

\* C36: once create has stored a message and the module tags has handled its
\* MessageAdded, the stored tags of the head of its series and of every patch
\* of head.get_patches() are the tags look_for_tags collects from the stored
\* messages, in whatever order the messages came and whether or not the tags
\* of the head changed in that event.
C36_TagsCurrent ==
  [][ (nextPk' = nextPk + 1 /\ last'.op = "create" /\ last'.raised = "") =>
        LET series == walk_to_head(rows', Row(rows', nextPk), 0)
        IN series \notin {NoRow, Hang} =>
             \A m \in {series} \cup get_patches(rows', series) :
               TagsCurrent(rows', m) ]_vars

\* the patches of the series of the head h that are not merged
UnmergedPatches(db, h) == {q \in get_patches(db, h) : ~q.is_merged}

\* how many SeriesMerged events the bag em holds for the series pk
MergedEvents(em, pk) == CopiesIn(<<"SeriesMerged", pk>>, em)

\* a call of Project.series_update has just returned or raised
SeriesUpdated == calls' = calls + 1 /\ last'.op = "series_update"

\* C37: a call of series_update that marks the last unmerged patch or patches
\* of a series leaves the head merged and emits exactly one SeriesMerged for
\* the series, also for a patch that is its own series and for several patches
\* of one series in one call; a series that keeps an unmerged patch gets no
\* event.
C37_MergedOnce ==
  [][ SeriesUpdated =>
        \A h \in series_heads(rows) :
          /\ (UnmergedPatches(rows, h) # {} /\ UnmergedPatches(rows', Row(rows', h.pk)) = {})
               => /\ Row(rows', h.pk).is_merged
                  /\ MergedEvents(emitted', h.pk) = MergedEvents(emitted, h.pk) + 1
          /\ UnmergedPatches(rows', Row(rows', h.pk)) # {}
               => MergedEvents(emitted', h.pk) = MergedEvents(emitted, h.pk) ]_vars

\* C38: in whatever order the revisions of a series are ingested, the
\* property obsoleted-by of an obsoleted revision names a revision of the
\* highest version among the stored revisions that obsolete it.
C38_ObsoletedByHighest ==
  \A b \in {r \in rows : is_series_head(r) /\ "obsoleted-by" \in DOMAIN r.properties} :
    \A a \in Obsoleting(rows, b) :
      \E o \in Obsoleting(rows, b) :
        /\ o.message_id = b.properties["obsoleted-by"]
        /\ Mail[a.message_id].version <= Mail[o.message_id].version

\* C39: whatever requests mark-accepted, mark-rejected, clear-reviewed,
\* add-to-queue and drop-from-queue the users send, no series is in the queue
\* accept and in the queue reject of one user at the same time.
C39_AcceptOrReject ==
  \A x, y \in queued :
    ~(x.user = y.user /\ x.message = y.message /\ x.name = "accept" /\ y.name = "reject")

\* how many MessageDropping events the bag em holds for the membership pk
DroppingEvents(em, pk) == CopiesIn(<<"MessageDropping", pk>>, em)

\* C40: every removal of a queue membership, by drop-from-queue, by the
\* switch between accept and reject, by clear-reviewed, by the merge of the
\* series or by the re-evaluation of a watched query, is announced by a
\* MessageDropping event of the request that deletes the row.
C40_DroppingAnnounced ==
  [][ \A x \in queued \ queued' :
        DroppingEvents(emitted', x.pk) = DroppingEvents(emitted, x.pk) + 1 ]_vars

====
